---- MODULE Spec2Model ----
(***************************************************************************)
(* Cross-exchange matching and arbitrage detection of realtradinggod.      *)
(*                                                                         *)
(* Prices are probabilities; they are held in hundredths (0.40 is 40), so  *)
(* 1.0 is GUARANTEED_RETURN = 100 and MIN_PROFIT_THRESHOLD = 0.01 is 1.    *)
(* Quotients (profit_percent, expected_value) are exact fractions          *)
(* <<numerator, denominator>> compared by cross-multiplication.  Scores    *)
(* are held in hundredths too (0.5 is 50).                                 *)
(***************************************************************************)
EXTENDS Integers, Sequences, FiniteSets, TLC

VARIABLES
    \* -- detector called on one input (pure functions) --
    input,          \* the Market or MarketMatch handed to the detector
    arb,            \* what the detector returned: None or <<opportunity>>
    called,         \* which detector has run on input
    \* -- the stored catalog and the opportunity table --
    markets,        \* Market rows: id -> [exchange, is_active, outcomes]
    market_matches, \* MarketMatch rows: id -> [kalshi_market, polymarket_market]
    opportunities,  \* list returned by the latest find_all_opportunities
    arb_rows,       \* ArbitrageOpportunity table, in insertion order
    saved,          \* rows returned by the latest save_opportunities
    runs,           \* number of save_opportunities calls so far
    \* -- one EventMatcher and the find_matches call it is serving --
    kalshi_events,     \* argument: list of Kalshi events (ids)
    polymarket_events, \* argument: list of Polymarket events (ids)
    sim,               \* sim[a][b]: what compute_similarity yields for the pair
    threshold_arg,     \* argument: None or <<threshold>>
    threshold,         \* the local `threshold` after line 305
    fm_pc,             \* "idle", "running" (inside the executor block), "done"
    futures,           \* per Kalshi event: [state, result] of its task
    matches,           \* the local list, returned when fm_pc = "done"
    previous,          \* the call before this one: None or <<[arg, matches]>>
    \* -- compute_similarity called on one pair (pure apart from the vectorizer) --
    pair,           \* the two titles, or the features and vectors drawn from them
    scored,         \* what compute_similarity returned: None or <<[score, breakdown]>>
    \* -- worker threads of one find_matches call inside compute_similarity --
    jobs,           \* per worker: the pair it is scoring
    workers,        \* per worker: [pc, tfidf_score, result]
    vectorizer,     \* self.vectorizer: None, or <<w>> when fitted to w's documents
    \* -- the Event and EventMatch tables behind the match endpoints --
    events,         \* Event rows: id -> [exchange, is_active]
    title_sim,      \* score of a (Kalshi id, Polymarket id) pair scored undisturbed
    event_matches,  \* EventMatch rows
    next_id,        \* next EventMatch primary key
    clock,          \* timezone.now()
    response,       \* the request served last and its response
    last_refresh,   \* row counts left by the latest refreshes in a row, two at most
    \* -- normalize_text called on one string and on its own result --
    raw_text,       \* the argument: None or <<string>>
    normalized,     \* the results of the successive calls
    \* -- POST sync_events: sync_all_events and its two exchange syncs --
    sync_futures,   \* per exchange: the future of its sync, [state, ...]
    sync_results,   \* the local `results`: per exchange the length of its list
    sync_response,  \* None or <<the JsonResponse>>
    \* -- one run of sync_kalshi_events or sync_polymarket_events --
    sync_run,       \* the run: its locals, what was served to it, its flushes
    synced_events,  \* Event table: the external ids of the exchange's rows
    synced_markets, \* Market table: [external_id, event, yes, no] rows
    \* -- one request of an exchange client --
    client_request  \* the retry loop: its position, attempts, sleeps, result

arbVars == <<input, arb, called>>
dbVars  == <<markets, market_matches, opportunities, arb_rows, saved, runs>>
matchVars == <<kalshi_events, polymarket_events, sim, threshold_arg, threshold,
               fm_pc, futures, matches, previous>>
simVars == <<pair, scored>>
raceVars == <<jobs, workers, vectorizer>>
tableVars == <<events, title_sim, event_matches, next_id, clock, response, last_refresh>>
svcVars == <<raw_text, normalized, sync_futures, sync_results,
             sync_response, sync_run, synced_events, synced_markets,
             client_request>>

----------------------------------------------------------------------------
(* Optional values: None is the empty tuple, a value x is <<x>>.           *)
None == <<>>
Some(x) == <<x>>

(* Exact fractions with positive denominators.                             *)
Frac(n, d) == <<n, d>>
FracGT(a, b) == a[1] * b[2] > b[1] * a[2]
FracGE(a, b) == a[1] * b[2] >= b[1] * a[2]
FracEQ(a, b) == a[1] * b[2] = b[1] * a[2]

(* Strings are tuples of characters.                                       *)
UpperLetters ==
    <<"A", "B", "C", "D", "E", "F", "G", "H", "I", "J", "K", "L", "M", "N",
      "O", "P", "Q", "R", "S", "T", "U", "V", "W", "X", "Y", "Z">>

LowerLetters ==
    <<"a", "b", "c", "d", "e", "f", "g", "h", "i", "j", "k", "l", "m", "n",
      "o", "p", "q", "r", "s", "t", "u", "v", "w", "x", "y", "z">>

IsUpper(c) == \E i \in 1..26 : UpperLetters[i] = c
IsLower(c) == \E i \in 1..26 : LowerLetters[i] = c
IsDigit(c) == c \in {"0", "1", "2", "3", "4", "5", "6", "7", "8", "9"}
(* \s, and what str.split() and str.strip() take for whitespace.           *)
IsSpace(c) == c \in {" ", "\t", "\n"}

(* str.lower on one character.                                             *)
Lower(c) ==
    IF IsUpper(c)
    THEN LowerLetters[CHOOSE i \in 1..26 : UpperLetters[i] = c]
    ELSE c

lower(s) == [i \in 1..Len(s) |-> Lower(s[i])]

(* Python's `sub in s`.                                                    *)
Contains(s, sub) ==
    \E i \in 1..(Len(s) - Len(sub) + 1) : SubSeq(s, i, i + Len(sub) - 1) = sub

yes == <<"y", "e", "s">>
no == <<"n", "o">>

KALSHI == "kalshi"
POLYMARKET == "polymarket"
KALSHI_ONLY == "kalshi_only"
POLYMARKET_ONLY == "polymarket_only"
CROSS_EXCHANGE == "cross_exchange"

MIN_PROFIT_THRESHOLD == 1
GUARANTEED_RETURN == 100

----------------------------------------------------------------------------
(* ArbitrageDetector.get_best_prices: the last priced outcome whose name   *)
(* contains 'yes', and the last priced one whose name contains 'no' and    *)
(* not 'yes'.                                                              *)
RECURSIVE BestPricesFrom(_, _, _, _)
BestPricesFrom(outcomes, i, yes_price, no_price) ==
    IF i > Len(outcomes) THEN <<yes_price, no_price>>
    ELSE LET name == lower(outcomes[i].name)
             price == outcomes[i].price
         IN  IF price # 0 /\ price > 0
             THEN IF Contains(name, yes) \/ name = yes
                  THEN BestPricesFrom(outcomes, i + 1, Some(price), no_price)
                  ELSE IF Contains(name, no) \/ name = no
                       THEN BestPricesFrom(outcomes, i + 1, yes_price, Some(price))
                       ELSE BestPricesFrom(outcomes, i + 1, yes_price, no_price)
             ELSE BestPricesFrom(outcomes, i + 1, yes_price, no_price)

(* Mutant: a side without a priced outcome is given the price 0.           *)
get_best_prices_zero(outcomes) ==
    LET found == BestPricesFrom(outcomes, 1, None, None)
    IN  << IF found[1] = None THEN Some(0) ELSE found[1],
           IF found[2] = None THEN Some(0) ELSE found[2] >>

get_best_prices(outcomes) == BestPricesFrom(outcomes, 1, None, None)

(* Mutant: the comparison made non-strict.                                 *)
BelowThreshold_nonstrict(total_cost) ==
    total_cost <= GUARANTEED_RETURN - MIN_PROFIT_THRESHOLD

(* The comparison `total_cost < 1 - self.MIN_PROFIT_THRESHOLD`.            *)
BelowThreshold(total_cost) ==
    total_cost < GUARANTEED_RETURN - MIN_PROFIT_THRESHOLD

(* Mutant: the profit taken as a percentage of the payout, not the cost.   *)
ProfitPercent_of_payout(profit, total_cost) ==
    Frac(profit * 100, GUARANTEED_RETURN)

(* `profit_percent = (profit / total_cost) * 100`                          *)
ProfitPercent(profit, total_cost) == Frac(profit * 100, total_cost)

(* ArbitrageDetector.detect_single_market_arb                              *)
detect_single_market_arb(market) ==
    LET prices == get_best_prices(market.outcomes)
        yes_price == prices[1]
        no_price == prices[2]
    IN  IF yes_price = None \/ no_price = None THEN None
        ELSE LET total_cost == yes_price[1] + no_price[1]
                 profit == GUARANTEED_RETURN - total_cost
             IN  IF BelowThreshold(total_cost)
                 THEN Some([market |-> market.id,
                            positions |->
                              << [outcome |-> "Yes", price |-> yes_price[1],
                                  market_id |-> market.id],
                                 [outcome |-> "No", price |-> no_price[1],
                                  market_id |-> market.id] >>,
                            total_cost |-> total_cost,
                            guaranteed_return |-> GUARANTEED_RETURN,
                            profit |-> profit,
                            profit_percent |-> ProfitPercent(profit, total_cost),
                            expected_value |-> Frac(GUARANTEED_RETURN, total_cost)])
                 ELSE None

(* Python truthiness of an Optional[float]: not None and not 0.0.          *)
Truthy(x) == x # None /\ x[1] # 0

(* Mutant: the second leg booked on the exchange of the first.             *)
CrossArb_same_exchange(match, yes_exchange, yes_market, yes_price, no_exchange, no_market, no_price) ==
    LET total_cost == yes_price + no_price
        profit == GUARANTEED_RETURN - total_cost
    IN  [match |-> match.id,
         positions |->
           << [exchange |-> yes_exchange, outcome |-> "Yes",
               price |-> yes_price, market_id |-> yes_market.id],
              [exchange |-> yes_exchange, outcome |-> "No",
               price |-> no_price, market_id |-> yes_market.id] >>,
         total_cost |-> total_cost,
         guaranteed_return |-> GUARANTEED_RETURN,
         profit |-> profit,
         profit_percent |-> ProfitPercent(profit, total_cost),
         expected_value |-> Frac(GUARANTEED_RETURN, total_cost)]

(* The opportunity dict built for one hedge of detect_cross_exchange_arb.  *)
CrossArb(match, yes_exchange, yes_market, yes_price, no_exchange, no_market, no_price) ==
    LET total_cost == yes_price + no_price
        profit == GUARANTEED_RETURN - total_cost
    IN  [match |-> match.id,
         positions |->
           << [exchange |-> yes_exchange, outcome |-> "Yes",
               price |-> yes_price, market_id |-> yes_market.id],
              [exchange |-> no_exchange, outcome |-> "No",
               price |-> no_price, market_id |-> no_market.id] >>,
         total_cost |-> total_cost,
         guaranteed_return |-> GUARANTEED_RETURN,
         profit |-> profit,
         profit_percent |-> ProfitPercent(profit, total_cost),
         expected_value |-> Frac(GUARANTEED_RETURN, total_cost)]

(* Mutant: a hedge replaces the best one also when it only equals it.      *)
Improves_or_equals(profit_percent, best_profit) == FracGE(profit_percent, best_profit)

(* The test `profit_percent > best_profit` that lets a hedge replace the   *)
(* best one found so far.                                                  *)
Improves(profit_percent, best_profit) == FracGT(profit_percent, best_profit)

(* Strategy 1: Kalshi Yes + Polymarket No.  Returns <<best_arb, best_profit>>. *)
Strategy1(match, kalshi_yes, poly_no, best) ==
    IF Truthy(kalshi_yes) /\ Truthy(poly_no)
    THEN LET a == CrossArb(match, KALSHI, match.kalshi_market, kalshi_yes[1],
                           POLYMARKET, match.polymarket_market, poly_no[1])
         IN  IF BelowThreshold(a.total_cost) /\ Improves(a.profit_percent, best[2])
             THEN <<Some(a), a.profit_percent>>
             ELSE best
    ELSE best

(* Strategy 2: Polymarket Yes + Kalshi No.                                 *)
Strategy2(match, poly_yes, kalshi_no, best) ==
    IF Truthy(poly_yes) /\ Truthy(kalshi_no)
    THEN LET a == CrossArb(match, POLYMARKET, match.polymarket_market, poly_yes[1],
                           KALSHI, match.kalshi_market, kalshi_no[1])
         IN  IF BelowThreshold(a.total_cost) /\ Improves(a.profit_percent, best[2])
             THEN <<Some(a), a.profit_percent>>
             ELSE best
    ELSE best

(* ArbitrageDetector.detect_cross_exchange_arb; strategy 3 (both No) is a  *)
(* `pass` and contributes nothing.                                         *)
detect_cross_exchange_arb(match) ==
    LET k == get_best_prices(match.kalshi_market.outcomes)
        p == get_best_prices(match.polymarket_market.outcomes)
        kalshi_yes == k[1]
        kalshi_no == k[2]
        poly_yes == p[1]
        poly_no == p[2]
        best0 == <<None, Frac(0, 1)>>
        best1 == Strategy1(match, kalshi_yes, poly_no, best0)
        best2 == Strategy2(match, poly_yes, kalshi_no, best1)
    IN  best2[1]

----------------------------------------------------------------------------
(* Inputs of the detector.                                                 *)
MaxOutcomes == 2

Prices == {0, 40, 44, 55, 59}

OutcomeLists ==
    LET OutcomeNames ==
            { <<"Y", "e", "s">>, <<"N", "o">>, <<"N", "O">>, <<"Y", "E", "S">>,
              <<"N", "o", "Y", "e", "s">>, <<"O", "n">> }
        Outcome == [name : OutcomeNames, price : Prices]
    IN  UNION { [1..n -> Outcome] : n \in 0..MaxOutcomes }

(* A binary market as the sync stores it: a Yes and a No outcome.          *)
Binary(y, n) == << [name |-> <<"Y", "e", "s">>, price |-> y],
                   [name |-> <<"N", "o">>, price |-> n] >>
BinaryLists == { Binary(y, n) : y \in Prices, n \in Prices }

MarketInputs ==
    { [id |-> 1, exchange |-> KALSHI, is_active |-> TRUE, outcomes |-> o] :
      o \in OutcomeLists }
MatchInputs ==
    { [id |-> 1,
       kalshi_market |-> [id |-> 1, exchange |-> KALSHI, is_active |-> TRUE,
                          outcomes |-> ko],
       polymarket_market |-> [id |-> 2, exchange |-> POLYMARKET,
                              is_active |-> TRUE, outcomes |-> po]] :
      ko \in BinaryLists, po \in BinaryLists }

dbIdle ==
    /\ markets = <<>>
    /\ market_matches = <<>>
    /\ opportunities = <<>>
    /\ arb_rows = <<>>
    /\ saved = <<>>
    /\ runs = 0

matchIdle ==
    /\ kalshi_events = <<>>
    /\ polymarket_events = <<>>
    /\ sim = <<>>
    /\ threshold_arg = None
    /\ threshold = None
    /\ fm_pc = "idle"
    /\ futures = <<>>
    /\ matches = <<>>
    /\ previous = None

simIdle ==
    /\ pair = [kind |-> "none"]
    /\ scored = None

raceIdle ==
    /\ jobs = <<>>
    /\ workers = <<>>
    /\ vectorizer = None

tableIdle ==
    /\ events = <<>>
    /\ title_sim = <<>>
    /\ event_matches = {}
    /\ next_id = 1
    /\ clock = 0
    /\ response = [op |-> "none"]
    /\ last_refresh = <<>>

svcIdle ==
    /\ raw_text = None
    /\ normalized = <<>>
    /\ sync_futures = <<>>
    /\ sync_results = <<>>
    /\ sync_response = None
    /\ sync_run = [phase |-> "idle"]
    /\ synced_events = {}
    /\ synced_markets = {}
    /\ client_request = [pc |-> "idle"]

InitDetect ==
    /\ svcIdle
    /\ matchIdle
    /\ simIdle
    /\ raceIdle
    /\ tableIdle
    /\ input \in [kind : {"market"}, market : MarketInputs]
                 \cup [kind : {"match"}, match : MatchInputs]
    /\ arb = None
    /\ called = "none"
    /\ dbIdle

DetectSingle ==
    /\ called = "none"
    /\ input.kind = "market"
    /\ arb' = detect_single_market_arb(input.market)
    /\ called' = "single"
    /\ UNCHANGED <<input, dbVars, matchVars, simVars, raceVars, tableVars,
                   svcVars>>

DetectCross ==
    /\ called = "none"
    /\ input.kind = "match"
    /\ arb' = detect_cross_exchange_arb(input.match)
    /\ called' = "cross"
    /\ UNCHANGED <<input, dbVars, matchVars, simVars, raceVars, tableVars,
                   svcVars>>

vars == <<arbVars, dbVars, matchVars, simVars, raceVars, tableVars, svcVars>>

NextDetect == DetectSingle \/ DetectCross

SpecDetect == InitDetect /\ [][NextDetect]_vars

----------------------------------------------------------------------------
(* The stored catalog, the scan over it and the opportunity table.         *)

MaxRuns == 2

(* The quotes an exchange may publish for a market.                        *)
SyncOutcomes(exchange) ==
    IF exchange = KALSHI
    THEN { Binary(30, 55), Binary(40, 55), Binary(40, 59) }
    ELSE { Binary(30, 55), Binary(40, 59) }

(* All orders in which a queryset without ORDER BY may yield the set S.    *)
Orderings(S) ==
    { f \in [1..Cardinality(S) -> S] : \A i, j \in 1..Cardinality(S) : f[i] = f[j] => i = j }

(* A Market row with its primary key, as the ORM hands it out.             *)
MarketRow(id) == [id |-> id] @@ markets[id]

(* A MarketMatch row with select_related('kalshi_market',                  *)
(* 'polymarket_market').                                                   *)
MatchRow(id) ==
    [id |-> id,
     kalshi_market |-> MarketRow(market_matches[id].kalshi_market),
     polymarket_market |-> MarketRow(market_matches[id].polymarket_market)]

(* Mutant: the scan takes inactive markets too.                            *)
ActiveMarkets_all(exchange) ==
    { id \in DOMAIN markets : markets[id].exchange = exchange }

(* Market.objects.filter(exchange=..., is_active=True)                     *)
ActiveMarkets(exchange) ==
    { id \in DOMAIN markets : markets[id].exchange = exchange /\ markets[id].is_active }

(* MarketMatch.objects.filter(kalshi_market__is_active=True,               *)
(*                            polymarket_market__is_active=True)           *)
ActiveMatches ==
    { id \in DOMAIN market_matches :
        /\ markets[market_matches[id].kalshi_market].is_active
        /\ markets[market_matches[id].polymarket_market].is_active }

(* The loop `for market in ...: arb = detect_single_market_arb(market);    *)
(* if arb: arb['type'] = type; opportunities.append(arb)`.                 *)
RECURSIVE ScanMarkets(_, _, _)
ScanMarkets(order, i, type) ==
    IF i > Len(order) THEN <<>>
    ELSE LET a == detect_single_market_arb(MarketRow(order[i]))
         IN  (IF a # None THEN << [type |-> type] @@ a[1] >> ELSE <<>>)
             \o ScanMarkets(order, i + 1, type)

RECURSIVE ScanMatches(_, _)
ScanMatches(order, i) ==
    IF i > Len(order) THEN <<>>
    ELSE LET a == detect_cross_exchange_arb(MatchRow(order[i]))
         IN  (IF a # None THEN << [type |-> CROSS_EXCHANGE] @@ a[1] >> ELSE <<>>)
             \o ScanMatches(order, i + 1)

(* opportunities.sort(key=lambda x: x['profit_percent'], reverse=True):    *)
(* a stable sort, entries of equal profit_percent keep their order.        *)
RECURSIVE SortByProfit(_)
SortByProfit(s) ==
    IF s = <<>> THEN <<>>
    ELSE LET rest == SortByProfit(Tail(s))
             x == Head(s)
             k == Cardinality({ j \in 1..Len(rest) :
                                  FracGT(rest[j].profit_percent, x.profit_percent) })
         IN  SubSeq(rest, 1, k) \o <<x>> \o SubSeq(rest, k + 1, Len(rest))

(* ArbitrageDetector.find_all_opportunities, for the orders in which the   *)
(* three querysets yield their rows.                                       *)
find_all_opportunities(kalshi_markets, poly_markets, match_rows) ==
    SortByProfit(ScanMarkets(kalshi_markets, 1, KALSHI_ONLY)
                 \o ScanMarkets(poly_markets, 1, POLYMARKET_ONLY)
                 \o ScanMatches(match_rows, 1))

(* Mutant: the old rows are left as they are.                              *)
DeactivateAll_skipped(rows) == rows

(* Mutant: the old rows are deleted instead of deactivated.                *)
DeactivateAll_delete(rows) == <<>>

(* ArbitrageOpportunity.objects.all().update(is_active=False)              *)
DeactivateAll(rows) == [i \in 1..Len(rows) |-> [rows[i] EXCEPT !.is_active = FALSE]]

(* ArbitrageOpportunity.objects.create(...) and markets.add(...) for one   *)
(* opportunity; the row gets the next primary key.                         *)
CreateRow(opp, id, now) ==
    [id |-> id,
     arb_type |-> opp.type,
     market_match |-> IF "match" \in DOMAIN opp THEN Some(opp.match) ELSE None,
     positions |-> [positions |-> opp.positions,
                    total_cost |-> opp.total_cost,
                    guaranteed_return |-> opp.guaranteed_return],
     profit_percent |-> opp.profit_percent,
     expected_value |-> opp.expected_value,
     is_active |-> TRUE,
     markets |-> IF "market" \in DOMAIN opp THEN {opp.market}
                 ELSE IF "match" \in DOMAIN opp
                      THEN {market_matches[opp.match].kalshi_market,
                            market_matches[opp.match].polymarket_market}
                      ELSE {},
     created_at |-> now]

(* ArbitrageDetector.save_opportunities: the table after the call.         *)
save_opportunities(rows, opps, now) ==
    LET cleared == DeactivateAll(rows)
    IN  cleared \o [i \in 1..Len(opps) |-> CreateRow(opps[i], Len(cleared) + i, now)]

arbIdle ==
    /\ input = [kind |-> "none"]
    /\ arb = None
    /\ called = "none"

(* Catalog of the save runs: one market per exchange, matched.             *)
Init ==
    /\ svcIdle
    /\ arbIdle
    /\ matchIdle
    /\ simIdle
    /\ raceIdle
    /\ tableIdle
    /\ markets = (1 :> [exchange |-> KALSHI, is_active |-> TRUE, outcomes |-> Binary(40, 59)]
               @@ 2 :> [exchange |-> POLYMARKET, is_active |-> TRUE, outcomes |-> Binary(40, 59)])
    /\ market_matches = (1 :> [kalshi_market |-> 1, polymarket_market |-> 2])
    /\ opportunities = <<>>
    /\ arb_rows = <<>>
    /\ saved = <<>>
    /\ runs = 0

(* Catalog of the scan: two Kalshi markets matched to one Polymarket       *)
(* market.                                                                 *)
InitScan ==
    /\ svcIdle
    /\ arbIdle
    /\ matchIdle
    /\ simIdle
    /\ raceIdle
    /\ tableIdle
    /\ markets = (1 :> [exchange |-> KALSHI, is_active |-> TRUE, outcomes |-> Binary(40, 59)]
               @@ 2 :> [exchange |-> KALSHI, is_active |-> TRUE, outcomes |-> Binary(40, 59)]
               @@ 3 :> [exchange |-> POLYMARKET, is_active |-> TRUE, outcomes |-> Binary(40, 59)])
    /\ market_matches = (1 :> [kalshi_market |-> 1, polymarket_market |-> 3]
                      @@ 2 :> [kalshi_market |-> 2, polymarket_market |-> 3])
    /\ opportunities = <<>>
    /\ arb_rows = <<>>
    /\ saved = <<>>
    /\ runs = 0

(* EventSyncService._bulk_create_markets on a market that exists: the      *)
(* upsert rewrites its outcomes and is_active.                             *)
SyncMarket ==
    \E id \in DOMAIN markets, active \in BOOLEAN :
      \E o \in SyncOutcomes(markets[id].exchange) :
        /\ markets' = [markets EXCEPT ![id].outcomes = o, ![id].is_active = active]
        /\ UNCHANGED <<arbVars, matchVars, simVars, raceVars, tableVars,
                       svcVars, market_matches, opportunities, arb_rows,
                       saved, runs>>

FindAllOpportunities ==
    \E ks \in Orderings(ActiveMarkets(KALSHI)),
       ps \in Orderings(ActiveMarkets(POLYMARKET)),
       ms \in Orderings(ActiveMatches) :
        /\ opportunities' = find_all_opportunities(ks, ps, ms)
        /\ UNCHANGED <<arbVars, matchVars, simVars, raceVars, tableVars,
                       svcVars, markets, market_matches, arb_rows, saved,
                       runs>>

SaveOpportunities ==
    /\ runs < MaxRuns
    /\ arb_rows' = save_opportunities(arb_rows, opportunities, runs + 1)
    /\ saved' = SubSeq(arb_rows', Len(arb_rows') - Len(opportunities) + 1, Len(arb_rows'))
    /\ runs' = runs + 1
    /\ UNCHANGED <<arbVars, matchVars, simVars, raceVars, tableVars,
                   svcVars, markets, market_matches, opportunities>>

Next == SyncMarket \/ FindAllOpportunities \/ SaveOpportunities

Spec == Init /\ [][Next]_vars

NextScan == SyncMarket \/ FindAllOpportunities

SpecScan == InitScan /\ [][NextScan]_vars

----------------------------------------------------------------------------
(* EventMatcher / SportsEventMatcher: match resolution.  A score is what   *)
(* compute_similarity (compute_sports_match_score) yields for a pair; the  *)
(* events are named by their position in the argument lists.               *)

MaxKalshi == 2
MaxPoly == 2

SIMILARITY_THRESHOLD == 50

Scores == {0, 40, 60}
ThresholdArgs == { None, Some(0), Some(30), Some(70) }

(* The confidence label that generate_match_reason puts on a score.        *)
generate_match_reason(score) ==
    IF score >= 70 THEN "HIGH confidence"
    ELSE IF score >= 50 THEN "MEDIUM confidence - verify recommended"
    ELSE "LOW confidence - manual verification needed"

(* Mutant: a later candidate of equal score replaces the best one.         *)
BetterScore_or_equal(score, best_score) == score >= best_score

(* `if score > best_score`                                                 *)
BetterScore(score, best_score) == score > best_score

(* Mutant: the best candidate is returned whatever its score.              *)
MeetsThreshold_ignored(best_match, best_score, t) == best_match # None

(* `if best_match and best_score >= threshold`                             *)
MeetsThreshold(best_match, best_score, t) == best_match # None /\ best_score >= t

(* The loop of _find_best_match_for_event over polymarket_events from      *)
(* position i on; yields <<best_match, best_score>>.                       *)
RECURSIVE BestMatchFrom(_, _, _, _, _)
BestMatchFrom(scores, poly, i, best_match, best_score) ==
    IF i > Len(poly) THEN <<best_match, best_score>>
    ELSE LET score == scores[poly[i]]
         IN  IF BetterScore(score, best_score)
             THEN BestMatchFrom(scores, poly, i + 1, Some(poly[i]), score)
             ELSE BestMatchFrom(scores, poly, i + 1, best_match, best_score)

(* EventMatcher._find_best_match_for_event and                             *)
(* SportsEventMatcher._find_best_sports_match: None or                     *)
(* <<(kalshi_event, best_match, best_score, reason)>>.                     *)
BestMatchFor(scores, kalshi_event, poly, t) ==
    LET best == BestMatchFrom(scores, poly, 1, None, 0)
        best_match == best[1]
        best_score == best[2]
    IN  IF MeetsThreshold(best_match, best_score, t)
        THEN Some(<<kalshi_event, best_match[1], best_score,
                    generate_match_reason(best_score)>>)
        ELSE None

(* The task of kalshi_event in the call under way; its scores are          *)
(* sim[kalshi_event].                                                      *)
find_best_match_for_event(kalshi_event, poly, t) ==
    BestMatchFor(sim[kalshi_event], kalshi_event, poly, t)

(* `threshold = threshold or self.SIMILARITY_THRESHOLD`: Python's `or`     *)
(* takes the default for None and for 0.0 alike.                           *)
EffectiveThreshold(arg) ==
    IF arg # None /\ arg[1] # 0 THEN arg[1] ELSE SIMILARITY_THRESHOLD

(* matches.sort(key=lambda x: x[2], reverse=True): stable, descending.     *)
RECURSIVE SortByScore(_)
SortByScore(s) ==
    IF s = <<>> THEN <<>>
    ELSE LET rest == SortByScore(Tail(s))
             x == Head(s)
             k == Cardinality({ j \in 1..Len(rest) : rest[j][3] > x[3] })
         IN  SubSeq(rest, 1, k) \o <<x>> \o SubSeq(rest, k + 1, Len(rest))

InitMatch ==
    /\ svcIdle
    /\ arbIdle
    /\ dbIdle
    /\ simIdle
    /\ raceIdle
    /\ tableIdle
    /\ \E na \in 0..MaxKalshi, nb \in 0..MaxPoly :
         /\ kalshi_events = [i \in 1..na |-> i]
         /\ polymarket_events = [i \in 1..nb |-> i]
         /\ sim \in [1..na -> [1..nb -> Scores]]
    /\ threshold_arg = None
    /\ threshold = None
    /\ fm_pc = "idle"
    /\ futures = <<>>
    /\ matches = <<>>
    /\ previous = None

(* find_matches up to the executor block: the threshold is fixed, empty    *)
(* input returns at once, otherwise one task per Kalshi event is           *)
(* submitted.  A call that follows another leaves that one in `previous`.  *)
FindMatchesCall ==
    \E arg \in ThresholdArgs :
        /\ fm_pc \in {"idle", "done"}
        /\ previous' = IF fm_pc = "done"
                       THEN Some([arg |-> threshold_arg, matches |-> matches])
                       ELSE previous
        /\ threshold_arg' = arg
        /\ threshold' = Some(EffectiveThreshold(arg))
        /\ matches' = <<>>
        /\ IF kalshi_events = <<>> \/ polymarket_events = <<>>
           THEN /\ fm_pc' = "done"
                /\ futures' = <<>>
           ELSE /\ fm_pc' = "running"
                /\ futures' = [a \in 1..Len(kalshi_events) |->
                                 [state |-> "pending", result |-> None]]
        /\ UNCHANGED <<arbVars, dbVars, simVars, raceVars, tableVars,
                       svcVars, kalshi_events, polymarket_events, sim>>

(* A worker runs the task of one Kalshi event to its end.                  *)
TaskRun ==
    \E a \in DOMAIN futures :
        /\ fm_pc = "running"
        /\ futures[a].state = "pending"
        /\ futures' = [futures EXCEPT ![a] =
               [state |-> "finished",
                result |-> find_best_match_for_event(kalshi_events[a],
                                                     polymarket_events, threshold[1])]]
        /\ UNCHANGED <<arbVars, dbVars, simVars, raceVars, tableVars,
                       svcVars, kalshi_events, polymarket_events, sim,
                       threshold_arg, threshold, fm_pc, matches, previous>>

(* One round of `for future in as_completed(futures)`: some finished       *)
(* future is yielded and its result, if any, appended.                     *)
Collect ==
    \E a \in DOMAIN futures :
        /\ fm_pc = "running"
        /\ futures[a].state = "finished"
        /\ futures' = [futures EXCEPT ![a].state = "collected"]
        /\ matches' = IF futures[a].result # None
                      THEN Append(matches, futures[a].result[1])
                      ELSE matches
        /\ UNCHANGED <<arbVars, dbVars, simVars, raceVars, tableVars,
                       svcVars, kalshi_events, polymarket_events, sim,
                       threshold_arg, threshold, fm_pc, previous>>

(* Mutant: the loop ends with the first future yielded.                    *)
AllYielded_first == \E a \in DOMAIN futures : futures[a].state = "collected"

(* `for future in as_completed(futures)` is exhausted: every future has    *)
(* finished and been yielded.                                              *)
AllYielded == \A a \in DOMAIN futures : futures[a].state = "collected"

(* Mutant: the list is returned in the order of collection.                *)
SortedMatches_unsorted(s) == s

(* `matches.sort(key=lambda x: x[2], reverse=True)` in find_matches.       *)
SortedMatches(s) == SortByScore(s)

(* All futures were yielded: the executor block ends, the list is sorted   *)
(* and returned.                                                           *)
Return ==
    /\ fm_pc = "running"
    /\ AllYielded
    /\ matches' = SortedMatches(matches)
    /\ fm_pc' = "done"
    /\ UNCHANGED <<arbVars, dbVars, simVars, raceVars, tableVars, svcVars,
                   kalshi_events, polymarket_events, sim, threshold_arg,
                   threshold, futures, previous>>

NextMatch == FindMatchesCall \/ TaskRun \/ Collect \/ Return

SpecMatch == InitMatch /\ [][NextMatch]_vars

----------------------------------------------------------------------------
(* EventMatcher.compute_similarity.  The feature sets drawn from the two   *)
(* titles are f.years1 .. f.numbers2; vec is what the TF-IDF step yields:  *)
(* None when fit_transform raises, <<c>> for a cosine of c hundredths.     *)
(* Signals and scores are exact fractions.                                 *)

Reduced(a) ==
    LET RECURSIVE GCD(_, _)
        GCD(m, n) == IF n = 0 THEN m ELSE GCD(n, m % n)
        g == GCD(a[1], a[2])
    IN  IF g = 0 THEN a ELSE Frac(a[1] \div g, a[2] \div g)
FracAdd(a, b) == Reduced(Frac(a[1] * b[2] + b[1] * a[2], a[2] * b[2]))
FracTimes(n, d, a) == Reduced(Frac(n * a[1], d * a[2]))

(* year_score, date_score: 1.0 when the two sets share an element.         *)
SharedScore(X1, X2) ==
    IF X1 # {} /\ X2 # {} /\ X1 \cap X2 # {} THEN Frac(1, 1) ELSE Frac(0, 1)

(* Mutant: the common elements are counted against the union.              *)
OverlapOverLarger_union(X1, X2) ==
    IF X1 # {} /\ X2 # {} /\ X1 \cap X2 # {}
    THEN Frac(Cardinality(X1 \cap X2), Cardinality(X1 \cup X2))
    ELSE Frac(0, 1)

(* topic_score, entity_score, number_score:                                *)
(* len(common) / max(len(X1), len(X2)).                                    *)
OverlapOverLarger(X1, X2) ==
    IF X1 # {} /\ X2 # {} /\ X1 \cap X2 # {}
    THEN Frac(Cardinality(X1 \cap X2),
              IF Cardinality(X1) >= Cardinality(X2)
              THEN Cardinality(X1) ELSE Cardinality(X2))
    ELSE Frac(0, 1)

(* term_score: len(common_terms) / len(terms1 | terms2).                   *)
OverlapOverUnion(X1, X2) ==
    IF X1 # {} /\ X2 # {} /\ X1 \cap X2 # {}
    THEN Frac(Cardinality(X1 \cap X2), Cardinality(X1 \cup X2))
    ELSE Frac(0, 1)

(* Mutant: no except clause, the failure of the vectorizer propagates.     *)
TryTfidf_uncaught(vec) ==
    IF vec = None THEN [raised |-> TRUE, tfidf_score |-> Frac(0, 1)]
    ELSE [raised |-> FALSE, tfidf_score |-> Frac(vec[1], 100)]

(* The try block around fit_transform and cosine_similarity: tfidf_score   *)
(* keeps its initial 0.0 when anything in it raises.                       *)
TryTfidf(vec) ==
    IF vec = None THEN [raised |-> FALSE, tfidf_score |-> Frac(0, 1)]
    ELSE [raised |-> FALSE, tfidf_score |-> Frac(vec[1], 100)]

(* The weighted sum of the seven signals.                                  *)
WeightedSum(b) ==
    FracAdd(FracTimes(25, 100, b.year_score),
    FracAdd(FracTimes(10, 100, b.date_score),
    FracAdd(FracTimes(15, 100, b.topic_score),
    FracAdd(FracTimes(20, 100, b.term_score),
    FracAdd(FracTimes(10, 100, b.entity_score),
    FracAdd(FracTimes(5, 100, b.number_score),
            FracTimes(15, 100, b.tfidf_score)))))))

(* strong_signals: how many of the four comparisons hold.                  *)
StrongSignals(b) ==
    Cardinality({ i \in 1..4 :
        \/ i = 1 /\ FracGT(b.year_score, Frac(5, 10))
        \/ i = 2 /\ FracGT(b.topic_score, Frac(5, 10))
        \/ i = 3 /\ FracGT(b.term_score, Frac(3, 10))
        \/ i = 4 /\ FracGT(b.entity_score, Frac(3, 10)) })

(* Mutant: the bonus is applied without the cap.                           *)
WithBonus_uncapped(combined_score, strong_signals) ==
    IF strong_signals >= 3
    THEN FracTimes(12, 10, combined_score)
    ELSE combined_score

(* `if strong_signals >= 3: combined_score = min(1.0, combined_score*1.2)` *)
WithBonus(combined_score, strong_signals) ==
    IF strong_signals >= 3
    THEN LET raised == FracTimes(12, 10, combined_score)
         IN  IF FracGT(raised, Frac(1, 1)) THEN Frac(1, 1) ELSE raised
    ELSE combined_score

(* compute_similarity on the features f and the vectorizer outcome vec:    *)
(* [raised, combined_score, breakdown].                                    *)
compute_similarity(f, vec) ==
    LET t == TryTfidf(vec)
        breakdown ==
            [year_score   |-> SharedScore(f.years1, f.years2),
             date_score   |-> SharedScore(f.dates1, f.dates2),
             topic_score  |-> OverlapOverLarger(f.topics1, f.topics2),
             term_score   |-> OverlapOverUnion(f.terms1, f.terms2),
             entity_score |-> OverlapOverLarger(f.entities1, f.entities2),
             number_score |-> OverlapOverLarger(f.numbers1, f.numbers2),
             tfidf_score  |-> t.tfidf_score]
    IN  [raised |-> t.raised,
         combined_score |-> WithBonus(WeightedSum(breakdown), StrongSignals(breakdown)),
         breakdown |-> breakdown]

(* Feature sets handed to compute_similarity; their elements are named by  *)
(* numbers.                                                                *)
MaxItems == 2

VecOutcomes == { None, Some(0), Some(50), Some(100) }

Features(years, dates, topics, terms, entities, numbers) ==
    [years1 |-> years[1], years2 |-> years[2],
     dates1 |-> dates[1], dates2 |-> dates[2],
     topics1 |-> topics[1], topics2 |-> topics[2],
     terms1 |-> terms[1], terms2 |-> terms[2],
     entities1 |-> entities[1], entities2 |-> entities[2],
     numbers1 |-> numbers[1], numbers2 |-> numbers[2]]

(* The feature sets compute_similarity is checked on: years and dates      *)
(* that agree or differ, every pair of topic sets over 1..MaxItems, and    *)
(* term, entity and number sets that are empty, equal, nested or           *)
(* overlapping.                                                            *)
FeatureInputs ==
    LET Items == 1..MaxItems
        SetPairs == { <<X1, X2>> : X1 \in SUBSET Items, X2 \in SUBSET Items }
        PairCases == { <<{}, {1}>>, <<{1}, {1}>>, <<{1, 2}, {1}>>, <<{1, 2}, {2, 3}>> }
        YearCases == { <<{}, {2025}>>, <<{2025}, {2025}>>, <<{2025}, {2026}>> }
        DateCases == { <<{"dec-31"}, {"dec-31"}>>, <<{"dec-31"}, {"jan-1"}>> }
    IN  { Features(years, dates, topics, terms, entities, numbers) :
            years \in YearCases, dates \in DateCases, topics \in SetPairs,
            terms \in PairCases, entities \in PairCases, numbers \in PairCases }

----------------------------------------------------------------------------
(* Feature extraction of EventMatcher on titles.  A title is a tuple of    *)
(* characters: words of letters and digits with single spaces between      *)
(* them.  On such text a word boundary \b of the regular expressions is     *)
(* the start or the end of a word.                                         *)

(* ABBREVIATIONS, in the order of the dictionary.                          *)
ABBREVIATIONS ==
    << <<<<"f", "e", "d">>,
         <<"f", "e", "d", "e", "r", "a", "l", " ", "r", "e", "s", "e", "r", "v", "e">>>>,
       <<<<"b", "t", "c">>,
         <<"b", "i", "t", "c", "o", "i", "n">>>>,
       <<<<"e", "t", "h">>,
         <<"e", "t", "h", "e", "r", "e", "u", "m">>>>,
       <<<<"g", "o", "p">>,
         <<"r", "e", "p", "u", "b", "l", "i", "c", "a", "n">>>>,
       <<<<"d", "e", "m">>,
         <<"d", "e", "m", "o", "c", "r", "a", "t", " ", "d", "e", "m", "o", "c", "r", "a", "t", "i", "c">>>>,
       <<<<"p", "o", "t", "u", "s">>,
         <<"p", "r", "e", "s", "i", "d", "e", "n", "t">>>>,
       <<<<"s", "c", "o", "t", "u", "s">>,
         <<"s", "u", "p", "r", "e", "m", "e", " ", "c", "o", "u", "r", "t">>>>,
       <<<<"g", "d", "p">>,
         <<"g", "r", "o", "s", "s", " ", "d", "o", "m", "e", "s", "t", "i", "c", " ", "p", "r", "o", "d", "u", "c", "t">>>>,
       <<<<"c", "p", "i">>,
         <<"c", "o", "n", "s", "u", "m", "e", "r", " ", "p", "r", "i", "c", "e", " ", "i", "n", "d", "e", "x">>>>,
       <<<<"a", "i">>,
         <<"a", "r", "t", "i", "f", "i", "c", "i", "a", "l", " ", "i", "n", "t", "e", "l", "l", "i", "g", "e", "n", "c", "e">>>>,
       <<<<"n", "b", "a">>,
         <<"b", "a", "s", "k", "e", "t", "b", "a", "l", "l">>>>,
       <<<<"n", "f", "l">>,
         <<"f", "o", "o", "t", "b", "a", "l", "l">>>>,
       <<<<"m", "l", "b">>,
         <<"b", "a", "s", "e", "b", "a", "l", "l">>>>,
       <<<<"u", "f", "c">>,
         <<"m", "m", "a", " ", "f", "i", "g", "h", "t", "i", "n", "g">>>> >>

(* TOPICS, in the order of the dictionary.                                 *)
TOPICS ==
    << [topic |-> "politics", keywords |->
          { <<"e", "l", "e", "c", "t", "i", "o", "n">>,
            <<"p", "r", "e", "s", "i", "d", "e", "n", "t">>,
            <<"v", "o", "t", "e">>,
            <<"c", "o", "n", "g", "r", "e", "s", "s">>,
            <<"s", "e", "n", "a", "t", "e">>,
            <<"g", "o", "v", "e", "r", "n", "o", "r">>,
            <<"t", "r", "u", "m", "p">>, <<"b", "i", "d", "e", "n">>,
            <<"r", "e", "p", "u", "b", "l", "i", "c", "a", "n">>,
            <<"d", "e", "m", "o", "c", "r", "a", "t">>, <<"g", "o", "p">>,
            <<"p", "r", "i", "m", "a", "r", "y">>,
            <<"n", "o", "m", "i", "n", "a", "t", "i", "o", "n">> }],
       [topic |-> "crypto", keywords |->
          { <<"b", "i", "t", "c", "o", "i", "n">>, <<"b", "t", "c">>,
            <<"e", "t", "h", "e", "r", "e", "u", "m">>, <<"e", "t", "h">>,
            <<"c", "r", "y", "p", "t", "o">>,
            <<"b", "l", "o", "c", "k", "c", "h", "a", "i", "n">>,
            <<"t", "o", "k", "e", "n">>, <<"c", "o", "i", "n">> }],
       [topic |-> "economics", keywords |->
          { <<"f", "e", "d">>,
            <<"f", "e", "d", "e", "r", "a", "l", " ", "r", "e", "s", "e", "r", "v", "e">>,
            <<"r", "a", "t", "e">>,
            <<"i", "n", "f", "l", "a", "t", "i", "o", "n">>,
            <<"g", "d", "p">>,
            <<"r", "e", "c", "e", "s", "s", "i", "o", "n">>,
            <<"u", "n", "e", "m", "p", "l", "o", "y", "m", "e", "n", "t">>,
            <<"c", "p", "i">>, <<"i", "n", "t", "e", "r", "e", "s", "t">> }],
       [topic |-> "tech", keywords |->
          { <<"a", "i">>,
            <<"a", "r", "t", "i", "f", "i", "c", "i", "a", "l", " ", "i", "n", "t", "e", "l", "l", "i", "g", "e", "n", "c", "e">>,
            <<"a", "p", "p", "l", "e">>, <<"g", "o", "o", "g", "l", "e">>,
            <<"m", "e", "t", "a">>,
            <<"m", "i", "c", "r", "o", "s", "o", "f", "t">>,
            <<"n", "v", "i", "d", "i", "a">>,
            <<"o", "p", "e", "n", "a", "i">>, <<"t", "e", "s", "l", "a">>,
            <<"s", "p", "a", "c", "e", "x">> }],
       [topic |-> "sports", keywords |->
          { <<"n", "b", "a">>, <<"n", "f", "l">>, <<"m", "l", "b">>,
            <<"s", "u", "p", "e", "r", " ", "b", "o", "w", "l">>,
            <<"c", "h", "a", "m", "p", "i", "o", "n", "s", "h", "i", "p">>,
            <<"p", "l", "a", "y", "o", "f", "f", "s">>,
            <<"w", "o", "r", "l", "d", " ", "s", "e", "r", "i", "e", "s">>,
            <<"m", "v", "p">> }],
       [topic |-> "entertainment", keywords |->
          { <<"o", "s", "c", "a", "r">>, <<"g", "r", "a", "m", "m", "y">>,
            <<"e", "m", "m", "y">>, <<"m", "o", "v", "i", "e">>,
            <<"a", "l", "b", "u", "m">>,
            <<"b", "i", "l", "l", "b", "o", "a", "r", "d">> }] >>

(* ignore_words of extract_key_terms.                                      *)
ignore_words ==
    { <<"w", "i", "l", "l">>, <<"b", "e">>, <<"t", "h", "e">>, <<"t", "o">>,
      <<"i", "n">>, <<"o", "n">>, <<"a", "t">>, <<"b", "y">>,
      <<"y", "e", "s">>, <<"n", "o">>, <<"m", "a", "r", "k", "e", "t">>,
      <<"w", "i", "n">>, <<"w", "i", "n", "n", "e", "r">>,
      <<"b", "e", "f", "o", "r", "e">>, <<"a", "f", "t", "e", "r">>,
      <<"b", "e", "t", "w", "e", "e", "n">>,
      <<"d", "u", "r", "i", "n", "g">>, <<"p", "r", "i", "c", "e">>,
      <<"a", "b", "o", "v", "e">>, <<"b", "e", "l", "o", "w">>,
      <<"o", "v", "e", "r">>, <<"u", "n", "d", "e", "r">>,
      <<"m", "o", "r", "e">>, <<"l", "e", "s", "s">>,
      <<"t", "h", "a", "n">>, <<"t", "h", "i", "s">>,
      <<"t", "h", "a", "t">>, <<"t", "h", "e", "s", "e">>,
      <<"t", "h", "o", "s", "e">>, <<"a", "n", "y">>, <<"a", "l", "l">>,
      <<"s", "o", "m", "e">>, <<"m", "o", "s", "t">>, <<"h", "a", "s">>,
      <<"h", "a", "v", "e">>, <<"h", "a", "d">>, <<"d", "o">>,
      <<"d", "o", "e", "s">>, <<"d", "i", "d">>, <<"a", "r", "e">>,
      <<"i", "s">>, <<"w", "a", "s">>, <<"w", "e", "r", "e">>,
      <<"f", "o", "r">>, <<"f", "r", "o", "m">>, <<"w", "i", "t", "h">>,
      <<"i", "n", "t", "o">>, <<"t", "h", "r", "o", "u", "g", "h">>,
      <<"a", "n", "d">>, <<"o", "r">>, <<"b", "u", "t">>, <<"i", "f">> }

(* The month names that `months` of extract_dates matches.                 *)
MonthForms ==
    { <<"j", "a", "n">>, <<"j", "a", "n", "u", "a", "r", "y">>,
      <<"f", "e", "b">>, <<"f", "e", "b", "r", "u", "a", "r", "y">>,
      <<"m", "a", "r">>, <<"m", "a", "r", "c", "h">>, <<"a", "p", "r">>,
      <<"a", "p", "r", "i", "l">>, <<"m", "a", "y">>, <<"j", "u", "n">>,
      <<"j", "u", "n", "e">>, <<"j", "u", "l">>, <<"j", "u", "l", "y">>,
      <<"a", "u", "g">>, <<"a", "u", "g", "u", "s", "t">>,
      <<"s", "e", "p">>, <<"s", "e", "p", "t", "e", "m", "b", "e", "r">>,
      <<"o", "c", "t">>, <<"o", "c", "t", "o", "b", "e", "r">>,
      <<"n", "o", "v">>, <<"n", "o", "v", "e", "m", "b", "e", "r">>,
      <<"d", "e", "c">>, <<"d", "e", "c", "e", "m", "b", "e", "r">> }

(* stop_words='english': the entries of scikit-learn's list that titles of  *)
(* the model can contain.                                                  *)
ENGLISH_STOP_WORDS ==
    { <<"a">>, <<"a", "b", "o", "u", "t">>, <<"a", "b", "o", "v", "e">>,
      <<"a", "f", "t", "e", "r">>, <<"a", "l", "l">>, <<"a", "n">>,
      <<"a", "n", "d">>, <<"a", "n", "y">>, <<"a", "r", "e">>, <<"a", "s">>,
      <<"a", "t">>, <<"b", "e">>, <<"b", "e", "f", "o", "r", "e">>,
      <<"b", "e", "l", "o", "w">>, <<"b", "e", "t", "w", "e", "e", "n">>,
      <<"b", "u", "t">>, <<"b", "y">>, <<"d", "o">>, <<"f", "o", "r">>,
      <<"f", "r", "o", "m">>, <<"h", "a", "d">>, <<"h", "a", "s">>,
      <<"h", "a", "v", "e">>, <<"i", "f">>, <<"i", "n">>,
      <<"i", "n", "t", "o">>, <<"i", "s">>, <<"i", "t">>,
      <<"l", "e", "s", "s">>, <<"m", "o", "r", "e">>,
      <<"m", "o", "s", "t">>, <<"n", "o">>, <<"n", "o", "t">>, <<"o", "f">>,
      <<"o", "n">>, <<"o", "r">>, <<"o", "v", "e", "r">>,
      <<"s", "o", "m", "e">>, <<"t", "h", "a", "n">>,
      <<"t", "h", "a", "t">>, <<"t", "h", "e">>,
      <<"t", "h", "e", "s", "e">>, <<"t", "h", "i", "s">>,
      <<"t", "h", "o", "s", "e">>, <<"t", "h", "r", "o", "u", "g", "h">>,
      <<"t", "o">>, <<"u", "n", "d", "e", "r">>, <<"u", "s">>,
      <<"w", "a", "s">>, <<"w", "e", "r", "e">>, <<"w", "i", "l", "l">>,
      <<"w", "i", "t", "h">> }

RangeOf(s) == { s[i] : i \in 1..Len(s) }

(* str.split(): the words of s.  SplitFrom(i, word) is the words from      *)
(* position i on, `word` being the word the scan is in.                    *)
split(s) ==
    LET RECURSIVE SplitFrom(_, _)
        SplitFrom(i, word) ==
            IF i > Len(s) THEN (IF word = <<>> THEN <<>> ELSE <<word>>)
            ELSE IF IsSpace(s[i])
                 THEN (IF word = <<>> THEN <<>> ELSE <<word>>)
                      \o SplitFrom(i + 1, <<>>)
                 ELSE SplitFrom(i + 1, Append(word, s[i]))
    IN  SplitFrom(1, <<>>)

(* ' '.join(words)                                                         *)
RECURSIVE Join(_)
Join(words) ==
    IF words = <<>> THEN <<>>
    ELSE IF Len(words) = 1 THEN words[1]
    ELSE words[1] \o <<" ">> \o Join(Tail(words))

(* Mutant: the ends are not stripped, a leading space stays.               *)
normalize_text_unstripped(text) ==
    LET low == lower(text)
        kept == [i \in 1..Len(low) |->
                   IF IsLower(low[i]) \/ IsDigit(low[i]) \/ IsSpace(low[i])
                   THEN low[i] ELSE " "]
        collapsed == Join(split(kept))
    IN  IF Len(kept) > 0 /\ IsSpace(kept[1]) /\ collapsed # <<>>
        THEN <<" ">> \o collapsed
        ELSE collapsed

(* normalize_text: lowercase, every character outside [a-z0-9\s] becomes a *)
(* space, runs of whitespace become one space, the ends are stripped.      *)
normalize_text(text) ==
    LET low == lower(text)
        kept == [i \in 1..Len(low) |->
                   IF IsLower(low[i]) \/ IsDigit(low[i]) \/ IsSpace(low[i])
                   THEN low[i] ELSE " "]
    IN  Join(split(kept))

(* expand_abbreviations: lowercase, then one substitution                  *)
(* re.sub(rf'\b{abbrev}\b', f'{abbrev} {expansion}', text) per             *)
(* abbreviation over the whole words of the text.  ExpandWord(w, k) is     *)
(* what the word w becomes under the substitutions from the k-th on: the   *)
(* first abbreviation equal to w puts its expansion behind it, and the     *)
(* later ones go over the words of both.                                   *)
expand_abbreviations(text) ==
    LET RECURSIVE ExpandWord(_, _)
        ExpandWord(w, k) ==
            IF k > Len(ABBREVIATIONS) THEN w
            ELSE IF w = ABBREVIATIONS[k][1]
                 THEN LET both == <<w>> \o split(ABBREVIATIONS[k][2])
                      IN  Join([i \in 1..Len(both) |-> ExpandWord(both[i], k + 1)])
                 ELSE ExpandWord(w, k + 1)
        words == split(lower(text))
    IN  Join([i \in 1..Len(words) |-> ExpandWord(words[i], 1)])

(* 20[2-9][0-9]                                                            *)
IsYear(w) ==
    /\ Len(w) = 4
    /\ w[1] = "2" /\ w[2] = "0"
    /\ IsDigit(w[3]) /\ w[3] \notin {"0", "1"}
    /\ IsDigit(w[4])

(* extract_years: \b(20[2-9][0-9])\b                                       *)
extract_years(text) == { w \in RangeOf(split(text)) : IsYear(w) }

(* extract_dates: a month name followed by a day (\d{1,2} up to a word     *)
(* boundary), in the next word or in the same one; the key is the first    *)
(* three letters, "-", the day.                                            *)
extract_dates(text) ==
    LET IsDay(w) == Len(w) \in {1, 2} /\ \A i \in 1..Len(w) : IsDigit(w[i])
        DateKey(month, day) == SubSeq(month, 1, 3) \o <<"-">> \o day
        words == split(lower(text))
    IN  { DateKey(words[i], words[i + 1]) :
            i \in { j \in 1..(Len(words) - 1) :
                      words[j] \in MonthForms /\ IsDay(words[j + 1]) } }
        \cup
        { DateKey(SubSeq(words[p[1]], 1, p[2]),
                  SubSeq(words[p[1]], p[2] + 1, Len(words[p[1]]))) :
            p \in { q \in (1..Len(words)) \X (3..9) :
                      /\ q[2] < Len(words[q[1]])
                      /\ SubSeq(words[q[1]], 1, q[2]) \in MonthForms
                      /\ IsDay(SubSeq(words[q[1]], q[2] + 1, Len(words[q[1]]))) } }

(* extract_numbers: the numbers of \$?([\d,]+(?:\.\d+)?)\s*[%km]?\b that   *)
(* have two characters or more and are not a year.  TrailingNumber(w) is   *)
(* the digits a word ends with, a final k or m after a digit set aside.    *)
extract_numbers(text) ==
    LET TrailingNumber(w) ==
            LET core == IF /\ Len(w) >= 2
                           /\ w[Len(w)] \in {"k", "m"}
                           /\ IsDigit(w[Len(w) - 1])
                        THEN SubSeq(w, 1, Len(w) - 1) ELSE w
                k == CHOOSE n \in 0..Len(core) :
                         /\ \A i \in (Len(core) - n + 1)..Len(core) : IsDigit(core[i])
                         /\ n < Len(core) => ~IsDigit(core[Len(core) - n])
            IN  SubSeq(core, Len(core) - k + 1, Len(core))
    IN  { n \in { TrailingNumber(w) : w \in RangeOf(split(lower(text))) } :
            Len(n) >= 2 /\ ~IsYear(n) }

(* extract_entities: re.findall(r'\b([A-Z][a-z]+(?:\s+[A-Z][a-z]+)?)\b',   *)
(* text), the matches longer than two characters, lowercased.  CapWord is  *)
(* [A-Z][a-z]+ as a whole word; EntitiesFrom(i) is the matches from word i *)
(* on: a capitalized word, together with the next one if that is           *)
(* capitalized too.                                                        *)
extract_entities(text) ==
    LET words == split(text)
        CapWord(w) ==
            /\ Len(w) >= 2
            /\ IsUpper(w[1])
            /\ \A i \in 2..Len(w) : IsLower(w[i])
        RECURSIVE EntitiesFrom(_)
        EntitiesFrom(i) ==
            IF i > Len(words) THEN {}
            ELSE IF ~CapWord(words[i]) THEN EntitiesFrom(i + 1)
            ELSE IF i < Len(words) /\ CapWord(words[i + 1])
                 THEN { words[i] \o <<" ">> \o words[i + 1] } \cup EntitiesFrom(i + 2)
                 ELSE { words[i] } \cup EntitiesFrom(i + 1)
    IN  { lower(e) : e \in { x \in EntitiesFrom(1) : Len(x) > 2 } }

(* detect_topic: the topics one of whose keywords occurs in the lowercased *)
(* text (`kw in text`).                                                    *)
detect_topic(text) ==
    { TOPICS[k].topic :
        k \in { j \in 1..Len(TOPICS) :
                  \E kw \in TOPICS[j].keywords : Contains(lower(text), kw) } }

(* extract_key_terms                                                       *)
extract_key_terms(text) == RangeOf(split(normalize_text(text))) \ ignore_words

(* self.vectorizer.fit_transform([doc1, doc2]) and cosine_similarity of    *)
(* the two rows, for a vectorizer no other thread touches: None when the   *)
(* vocabulary is empty (ValueError), else <<the cosine in hundredths>>.    *)
(* Ngrams is the analyzer: the words of two characters or more that are no *)
(* stop words, followed by the pairs of adjacent ones (ngram_range=(1,     *)
(* 2)).  Idf is the smoothed idf of a term over the two documents, in      *)
(* tenths: ln(3 / (1 + df)) + 1 is 1.0 for df = 2 and 1.4 for df = 1.      *)
(* Isqrt is the integer square root.                                       *)
TfidfCosine(doc1, doc2) ==
    LET Ngrams(doc) ==
            LET tokens == SelectSeq(split(doc),
                              LAMBDA w : Len(w) >= 2 /\ w \notin ENGLISH_STOP_WORDS)
            IN  tokens \o [i \in 1..(Len(tokens) - 1) |->
                             tokens[i] \o <<" ">> \o tokens[i + 1]]
        grams1 == Ngrams(doc1)
        grams2 == Ngrams(doc2)
        Count(g, grams) == Cardinality({ i \in 1..Len(grams) : grams[i] = g })
        Idf(g) == IF Count(g, grams1) > 0 /\ Count(g, grams2) > 0 THEN 10 ELSE 14
        RECURSIVE SumOver(_, _)
        SumOver(S, F) ==
            IF S = {} THEN 0
            ELSE LET x == CHOOSE y \in S : TRUE
                 IN  F[x] + SumOver(S \ {x}, F)
        RECURSIVE IsqrtIn(_, _, _)
        IsqrtIn(n, lo, hi) ==
            IF lo >= hi THEN lo
            ELSE LET mid == (lo + hi + 1) \div 2
                 IN  IF mid * mid <= n THEN IsqrtIn(n, mid, hi)
                     ELSE IsqrtIn(n, lo, mid - 1)
        Isqrt(n) == IsqrtIn(n, 0, 46340)
        vocabulary == RangeOf(grams1) \cup RangeOf(grams2)
        w1 == [g \in vocabulary |-> Count(g, grams1) * Idf(g)]
        w2 == [g \in vocabulary |-> Count(g, grams2) * Idf(g)]
        dot == SumOver(vocabulary, [g \in vocabulary |-> w1[g] * w2[g]])
        norm1 == Isqrt(10000 * SumOver(vocabulary, [g \in vocabulary |-> w1[g] * w1[g]]))
        norm2 == Isqrt(10000 * SumOver(vocabulary, [g \in vocabulary |-> w2[g] * w2[g]]))
        cosine == (1000000 * dot) \div (norm1 * norm2)
    IN  IF vocabulary = {} THEN None
        ELSE IF norm1 = 0 \/ norm2 = 0 THEN Some(0)
        ELSE IF cosine > 100 THEN Some(100)
        ELSE Some(cosine)

(* Titles that compute_similarity is called on.                            *)
(* "Fed raises rates in 2025" *)
FedRaises ==
    <<"F", "e", "d", " ", "r", "a", "i", "s", "e", "s", " ", "r", "a", "t",
      "e", "s", " ", "i", "n", " ", "2", "0", "2", "5">>

(* "Federal Reserve rate hike 2025" *)
FederalReserveHike ==
    <<"F", "e", "d", "e", "r", "a", "l", " ", "R", "e", "s", "e", "r", "v",
      "e", " ", "r", "a", "t", "e", " ", "h", "i", "k", "e", " ", "2", "0",
      "2", "5">>

(* The titles compute_similarity is called on: the two of the scenario and *)
(* seven more.                                                             *)
Titles ==
    LET (* "Fed cuts rates in 2025" *)
        FedCuts ==
            <<"F", "e", "d", " ", "c", "u", "t", "s", " ", "r", "a", "t", "e", "s",
              " ", "i", "n", " ", "2", "0", "2", "5">>
        (* "Bitcoin above 100k in 2025" *)
        BitcoinAbove ==
            <<"B", "i", "t", "c", "o", "i", "n", " ", "a", "b", "o", "v", "e", " ",
              "1", "0", "0", "k", " ", "i", "n", " ", "2", "0", "2", "5">>
        (* "BTC above 100k by Dec 31" *)
        BtcDec ==
            <<"B", "T", "C", " ", "a", "b", "o", "v", "e", " ", "1", "0", "0", "k",
              " ", "b", "y", " ", "D", "e", "c", " ", "3", "1">>
        (* "Will Trump win in 2028" *)
        TrumpWin ==
            <<"W", "i", "l", "l", " ", "T", "r", "u", "m", "p", " ", "w", "i", "n",
              " ", "i", "n", " ", "2", "0", "2", "8">>
        (* "Trump wins election 2028" *)
        TrumpElection ==
            <<"T", "r", "u", "m", "p", " ", "w", "i", "n", "s", " ", "e", "l", "e",
              "c", "t", "i", "o", "n", " ", "2", "0", "2", "8">>
        (* "US recession in 2025" *)
        Recession ==
            <<"U", "S", " ", "r", "e", "c", "e", "s", "s", "i", "o", "n", " ", "i",
              "n", " ", "2", "0", "2", "5">>
        (* "Will the Fed hike rates" *)
        FedHike ==
            <<"W", "i", "l", "l", " ", "t", "h", "e", " ", "F", "e", "d", " ", "h",
              "i", "k", "e", " ", "r", "a", "t", "e", "s">>
    IN  { FedRaises, FederalReserveHike, FedCuts, BitcoinAbove, BtcDec,
          TrumpWin, TrumpElection, Recession, FedHike }

(* The first half of compute_similarity: the features are drawn from the   *)
(* titles, the key terms from the expanded titles.                         *)
FeaturesOf(p) ==
    IF p.kind = "titles"
    THEN LET text1_exp == expand_abbreviations(p.text1)
             text2_exp == expand_abbreviations(p.text2)
         IN  Features(<<extract_years(p.text1), extract_years(p.text2)>>,
                      <<extract_dates(p.text1), extract_dates(p.text2)>>,
                      <<detect_topic(p.text1), detect_topic(p.text2)>>,
                      <<extract_key_terms(text1_exp), extract_key_terms(text2_exp)>>,
                      <<extract_entities(p.text1), extract_entities(p.text2)>>,
                      <<extract_numbers(p.text1), extract_numbers(p.text2)>>)
    ELSE p.f

(* What the TF-IDF step gives on the normalized expanded titles.           *)
VecOf(p) ==
    IF p.kind = "titles"
    THEN TfidfCosine(normalize_text(expand_abbreviations(p.text1)),
                     normalize_text(expand_abbreviations(p.text2)))
    ELSE p.vec

InitSim ==
    /\ svcIdle
    /\ arbIdle
    /\ dbIdle
    /\ matchIdle
    /\ raceIdle
    /\ tableIdle
    /\ pair \in [kind : {"features"}, f : FeatureInputs, vec : VecOutcomes]
               \cup [kind : {"titles"}, text1 : Titles, text2 : Titles]
    /\ scored = None

(* compute_similarity is called on the pair.                               *)
ComputeSimilarity ==
    /\ scored = None
    /\ scored' = Some(compute_similarity(FeaturesOf(pair), VecOf(pair)))
    /\ UNCHANGED <<arbVars, dbVars, matchVars, raceVars, tableVars, svcVars,
                   pair>>

NextSim == ComputeSimilarity

SpecSim == InitSim /\ [][NextSim]_vars

----------------------------------------------------------------------------
(* The worker threads of one find_matches call.  Every task calls          *)
(* compute_similarity on the one matcher, so all of them fit and apply the *)
(* one self.vectorizer: fit_transform first stores the vocabulary and the  *)
(* idf weights of the caller's two documents in the vectorizer, then       *)
(* weighs the caller's term counts with whatever weights are stored.       *)

MaxWorkers == 2

(* What a task is given: a pair with three strong signals or one with      *)
(* none, and what an undisturbed TF-IDF step gives for it.                 *)
JobInputs ==
    LET StrongFeatures ==
            Features(<<{2025}, {2025}>>, <<{}, {}>>, <<{1}, {1}>>,
                     <<{1}, {1}>>, <<{}, {}>>, <<{}, {}>>)
        WeakFeatures ==
            Features(<<{2025}, {2026}>>, <<{}, {}>>, <<{1}, {2}>>,
                     <<{1, 2}, {1}>>, <<{}, {}>>, <<{}, {}>>)
    IN  [f : {StrongFeatures, WeakFeatures}, vec : VecOutcomes]

InitRace ==
    /\ svcIdle
    /\ arbIdle
    /\ dbIdle
    /\ matchIdle
    /\ simIdle
    /\ tableIdle
    /\ \E n \in 1..MaxWorkers :
         /\ jobs \in [1..n -> JobInputs]
         /\ workers = [w \in 1..n |-> [pc |-> "start", result |-> None]]
    /\ vectorizer = None

(* First half of self.vectorizer.fit_transform in worker w: the vocabulary *)
(* and idf weights of w's documents are stored in the shared vectorizer.   *)
(* Documents without a term raise before anything is stored.               *)
Fit ==
    \E w \in DOMAIN workers :
        /\ workers[w].pc = "start"
        /\ IF jobs[w].vec = None
           THEN /\ workers' = [workers EXCEPT ![w] =
                       [pc |-> "done",
                        result |-> Some(compute_similarity(jobs[w].f, None))]]
                /\ UNCHANGED vectorizer
           ELSE /\ workers' = [workers EXCEPT ![w].pc = "fitted"]
                /\ vectorizer' = Some(w)
        /\ UNCHANGED <<arbVars, dbVars, matchVars, simVars, tableVars,
                       svcVars, jobs>>

(* Second half in worker w: w's counts are weighed with the stored         *)
(* weights.  With w's own weights the cosine is the one of w's pair; with  *)
(* weights another worker stored since, the sizes differ and the call      *)
(* raises, or they agree and the cosine is some other value.               *)
Transform ==
    \E w \in DOMAIN workers :
        /\ workers[w].pc = "fitted"
        /\ \E vec \in VecOutcomes :
             /\ vectorizer = Some(w) => vec = jobs[w].vec
             /\ workers' = [workers EXCEPT ![w] =
                    [pc |-> "done",
                     result |-> Some(compute_similarity(jobs[w].f, vec))]]
        /\ UNCHANGED <<arbVars, dbVars, matchVars, simVars, tableVars,
                       svcVars, jobs, vectorizer>>

NextRace == Fit \/ Transform

SpecRace == InitRace /\ [][NextRace]_vars

----------------------------------------------------------------------------
(* The match endpoints of views.py over the Event and EventMatch tables:   *)
(* refresh_event_matches, create_event_match, verify_event_match and       *)
(* delete_event_match.  Each request is served to its end before the next. *)

MaxMatchId == 2
MaxClock == 1

(* The Event table: two active Kalshi events, one active Polymarket event  *)
(* and one Kalshi event that is no longer active.                          *)
Catalog ==
    (1 :> [exchange |-> KALSHI, is_active |-> TRUE]
  @@ 2 :> [exchange |-> KALSHI, is_active |-> TRUE]
  @@ 3 :> [exchange |-> POLYMARKET, is_active |-> TRUE]
  @@ 4 :> [exchange |-> KALSHI, is_active |-> FALSE])

(* The ids a request may carry: none, a Kalshi event, a Polymarket event,  *)
(* an id no event has.                                                     *)
RequestIds == { None, Some(1), Some(3), Some(9) }

TitleScores == {0, 45, 55}

(* `Event.objects.filter(exchange=..., is_active=True)` as a list.         *)
ActiveEvents(exchange) ==
    LET RECURSIVE SortedIds(_)
        SortedIds(S) ==
            IF S = {} THEN <<>>
            ELSE LET m == CHOOSE x \in S : \A y \in S : x <= y
                 IN  <<m>> \o SortedIds(S \ {m})
    IN  SortedIds({ i \in DOMAIN events :
                      events[i].exchange = exchange /\ events[i].is_active })

(* Mutant: the event is looked up by id alone.                             *)
GetEvent_by_id(id, exchange) ==
    IF id \in DOMAIN events THEN Some(id) ELSE None

(* `Event.objects.get(id=..., exchange=...)`: None for DoesNotExist.       *)
GetEvent(id, exchange) ==
    IF id \in DOMAIN events /\ events[id].exchange = exchange THEN Some(id) ELSE None

SamePair(r, kalshi_event, polymarket_event) ==
    r.kalshi_event = kalshi_event /\ r.polymarket_event = polymarket_event

(* Mutant: the upsert also resets the verification of the row.             *)
update_or_create_unverifies(rows, kalshi_event, polymarket_event, score, reason, id) ==
    IF \E r \in rows : SamePair(r, kalshi_event, polymarket_event)
    THEN { IF SamePair(r, kalshi_event, polymarket_event)
           THEN [r EXCEPT !.similarity_score = score, !.match_reason = reason,
                          !.is_verified = FALSE, !.verified_at = None]
           ELSE r : r \in rows }
    ELSE rows \cup { [id |-> id,
                      kalshi_event |-> kalshi_event,
                      polymarket_event |-> polymarket_event,
                      similarity_score |-> score,
                      match_reason |-> reason,
                      is_verified |-> FALSE,
                      verified_at |-> None] }

(* Mutant: an inserted row displaces the other rows of its Polymarket      *)
(* event.                                                                  *)
update_or_create_displacing(rows, kalshi_event, polymarket_event, score, reason, id) ==
    IF \E r \in rows : SamePair(r, kalshi_event, polymarket_event)
    THEN { IF SamePair(r, kalshi_event, polymarket_event)
           THEN [r EXCEPT !.similarity_score = score, !.match_reason = reason]
           ELSE r : r \in rows }
    ELSE { r \in rows : r.polymarket_event # polymarket_event }
         \cup { [id |-> id,
                 kalshi_event |-> kalshi_event,
                 polymarket_event |-> polymarket_event,
                 similarity_score |-> score,
                 match_reason |-> reason,
                 is_verified |-> FALSE,
                 verified_at |-> None] }

(* EventMatch.objects.update_or_create(kalshi_event=, polymarket_event=,   *)
(* defaults={similarity_score, match_reason}): the row of the pair gets    *)
(* the two defaults, or a new row with the model's defaults is inserted.   *)
update_or_create(rows, kalshi_event, polymarket_event, score, reason, id) ==
    IF \E r \in rows : SamePair(r, kalshi_event, polymarket_event)
    THEN { IF SamePair(r, kalshi_event, polymarket_event)
           THEN [r EXCEPT !.similarity_score = score, !.match_reason = reason]
           ELSE r : r \in rows }
    ELSE rows \cup { [id |-> id,
                      kalshi_event |-> kalshi_event,
                      polymarket_event |-> polymarket_event,
                      similarity_score |-> score,
                      match_reason |-> reason,
                      is_verified |-> FALSE,
                      verified_at |-> None] }

(* The primary key after the upsert: used up by an insert only.            *)
IdAfter(rows, kalshi_event, polymarket_event, id) ==
    IF \E r \in rows : SamePair(r, kalshi_event, polymarket_event) THEN id ELSE id + 1

(* EventMatcher.create_match_records from position i of the list on:      *)
(* [rows, id] afterwards.                                                  *)
RECURSIVE create_match_records(_, _, _, _)
create_match_records(rows, found, i, id) ==
    IF i > Len(found) THEN [rows |-> rows, id |-> id]
    ELSE LET m == found[i]
         IN  create_match_records(
                 update_or_create(rows, m[1], m[2], m[3], m[4], id),
                 found, i + 1, IdAfter(rows, m[1], m[2], id))

(* The scores one find_matches call can see for a pair whose undisturbed   *)
(* score is s: s itself, and with several tasks in the executor also what  *)
(* a disturbed TF-IDF step makes of it.                                    *)
(* The TF-IDF signal can move a combined score by its weight 0.15, times   *)
(* 1.2 under the bonus.                                                    *)
Observable(s, racing) ==
    LET MaxTfidfEffect == (15 * 12) \div 10
    IN  IF racing
        THEN { x \in TitleScores :
                 x - s <= MaxTfidfEffect /\ s - x <= MaxTfidfEffect }
        ELSE { s }

(* Mutant: a toggle to false leaves the timestamp.                         *)
ToggleVerified_keeps_time(r, t) ==
    [r EXCEPT !.is_verified = ~r.is_verified,
              !.verified_at = IF ~r.is_verified THEN Some(t) ELSE r.verified_at]

(* verify_event_match on the row: is_verified flips; verified_at is now    *)
(* when it became true, None when it became false.                         *)
ToggleVerified(r, t) ==
    [r EXCEPT !.is_verified = ~r.is_verified,
              !.verified_at = IF ~r.is_verified THEN Some(t) ELSE None]

InitTable ==
    /\ svcIdle
    /\ arbIdle
    /\ dbIdle
    /\ matchIdle
    /\ simIdle
    /\ raceIdle
    /\ events = Catalog
    /\ title_sim \in [{1, 2} -> [{3} -> TitleScores]]
    /\ event_matches = {}
    /\ next_id = 1
    /\ clock = 0
    /\ response = [op |-> "none"]
    /\ last_refresh = <<>>

(* POST refresh_event_matches: the active events of the two exchanges are  *)
(* matched by a fresh EventMatcher and the matches upserted.               *)
RefreshEventMatches ==
    LET kalshi == ActiveEvents(KALSHI)
        poly == ActiveEvents(POLYMARKET)
        K == { kalshi[i] : i \in 1..Len(kalshi) }
        P == { poly[i] : i \in 1..Len(poly) }
    IN  \E seen \in [K -> [P -> TitleScores]] :
          /\ \A a \in K : \A b \in P :
               seen[a][b] \in Observable(title_sim[a][b], Len(kalshi) >= 2)
          /\ LET results == [a \in K |->
                     IF poly = <<>> THEN None
                     ELSE BestMatchFor(seen[a], a, poly, EffectiveThreshold(None))]
                 M == { a \in K : results[a] # None }
             IN  \E order \in Orderings(M) :
                   LET found == SortedMatches([i \in 1..Len(order) |->
                                                  results[order[i]][1]])
                       after == create_match_records(event_matches, found, 1, next_id)
                   IN  /\ after.id <= MaxMatchId + 1
                       /\ event_matches' = after.rows
                       /\ next_id' = after.id
                       /\ response' = [op |-> "refresh", status |-> 200]
                       /\ last_refresh' =
                            IF last_refresh = <<>>
                            THEN <<Cardinality(after.rows)>>
                            ELSE <<last_refresh[Len(last_refresh)],
                                   Cardinality(after.rows)>>
          /\ UNCHANGED <<arbVars, dbVars, matchVars, simVars, raceVars,
                         svcVars, events, title_sim, clock>>

CreateResponse(kalshi_event_id, polymarket_event_id, status) ==
    [op |-> "create", status |-> status,
     kalshi_event_id |-> kalshi_event_id,
     polymarket_event_id |-> polymarket_event_id]

(* POST create_event_match with the two ids of the body.                   *)
CreateEventMatch(kalshi_event_id, polymarket_event_id) ==
    /\ IF kalshi_event_id = None \/ polymarket_event_id = None
       THEN /\ response' = CreateResponse(kalshi_event_id, polymarket_event_id, 400)
            /\ UNCHANGED <<event_matches, next_id, last_refresh>>
       ELSE LET kalshi_event == GetEvent(kalshi_event_id[1], KALSHI)
                polymarket_event == GetEvent(polymarket_event_id[1], POLYMARKET)
            IN  IF kalshi_event = None \/ polymarket_event = None
                THEN /\ response' = CreateResponse(kalshi_event_id, polymarket_event_id, 404)
                     /\ UNCHANGED <<event_matches, next_id, last_refresh>>
                ELSE /\ IdAfter(event_matches, kalshi_event[1],
                                polymarket_event[1], next_id) <= MaxMatchId + 1
                     /\ event_matches' =
                          update_or_create(event_matches, kalshi_event[1],
                                           polymarket_event[1], 100,
                                           "Manual match", next_id)
                     /\ next_id' = IdAfter(event_matches, kalshi_event[1],
                                           polymarket_event[1], next_id)
                     /\ response' = CreateResponse(kalshi_event_id, polymarket_event_id, 200)
                     /\ last_refresh' = <<>>
    /\ UNCHANGED <<arbVars, dbVars, matchVars, simVars, raceVars, svcVars,
                   events, title_sim, clock>>

CreateEventMatchRequest ==
    \E kalshi_event_id \in RequestIds, polymarket_event_id \in RequestIds :
        CreateEventMatch(kalshi_event_id, polymarket_event_id)

(* POST verify_event_match/<match_id>.                                     *)
VerifyEventMatch ==
    \E match_id \in (1..MaxMatchId) :
        /\ IF \E r \in event_matches : r.id = match_id
           THEN LET r == CHOOSE r \in event_matches : r.id = match_id
                IN  /\ r.is_verified \/ clock < MaxClock
                    /\ clock' = IF r.is_verified THEN clock ELSE clock + 1
                    /\ event_matches' =
                         (event_matches \ {r}) \cup { ToggleVerified(r, clock') }
                    /\ response' = [op |-> "verify", status |-> 200]
           ELSE /\ response' = [op |-> "verify", status |-> 404]
                /\ UNCHANGED <<event_matches, clock>>
        /\ UNCHANGED <<arbVars, dbVars, matchVars, simVars, raceVars,
                       svcVars, events, title_sim, next_id, last_refresh>>

(* POST delete_event_match/<match_id>.                                     *)
DeleteEventMatch ==
    \E match_id \in (1..MaxMatchId) :
        /\ IF \E r \in event_matches : r.id = match_id
           THEN /\ event_matches' = { r \in event_matches : r.id # match_id }
                /\ response' = [op |-> "delete", status |-> 200]
                /\ last_refresh' = <<>>
           ELSE /\ response' = [op |-> "delete", status |-> 404]
                /\ UNCHANGED <<event_matches, last_refresh>>
        /\ UNCHANGED <<arbVars, dbVars, matchVars, simVars, raceVars,
                       svcVars, events, title_sim, next_id, clock>>

NextTable ==
    \/ RefreshEventMatches
    \/ CreateEventMatchRequest
    \/ VerifyEventMatch
    \/ DeleteEventMatch

SpecTable == InitTable /\ [][NextTable]_vars

----------------------------------------------------------------------------
(* normalize_text called on a string, and then on what it returned.        *)
MaxTextLen == 4

(* The strings handed to normalize_text: an upper-case and a lower-case    *)
(* letter, a digit, a space, a tab and a punctuation mark, in every        *)
(* arrangement of up to MaxTextLen characters.                             *)
Texts ==
    UNION { [1..n -> {"A", "b", "7", " ", "\t", "-"}] : n \in 0..MaxTextLen }

NormalizeText ==
    /\ raw_text = None
    /\ \E s \in Texts :
         /\ raw_text' = Some(s)
         /\ normalized' = <<normalize_text(s)>>
    /\ UNCHANGED <<arbVars, dbVars, matchVars, simVars, raceVars, tableVars,
                   sync_futures, sync_results, sync_response, sync_run,
                   synced_events, synced_markets, client_request>>

NormalizeAgain ==
    /\ Len(normalized) = 1
    /\ normalized' = Append(normalized, normalize_text(normalized[1]))
    /\ UNCHANGED <<arbVars, dbVars, matchVars, simVars, raceVars, tableVars,
                   raw_text, sync_futures, sync_results, sync_response,
                   sync_run, synced_events, synced_markets, client_request>>

InitIdle ==
    /\ arbIdle
    /\ dbIdle
    /\ matchIdle
    /\ simIdle
    /\ raceIdle
    /\ tableIdle
    /\ svcIdle

NextText ==
    \/ NormalizeText
    \/ NormalizeAgain

SpecText == InitIdle /\ [][NextText]_vars

----------------------------------------------------------------------------
(* POST sync_events.  The view calls sync_all_events, which submits the    *)
(* sync of each exchange to an executor of two workers and collects the    *)
(* futures as they complete.                                               *)
MaxSynced == 2

(* What the sync of an exchange ends with when `cause` went wrong in it    *)
(* and n events had been flushed.  Both syncs log and re-raise what        *)
(* reaches their outer handler; sync_polymarket_events catches a failed    *)
(* get_events itself, stops paging and returns what it has.                *)
SyncEnd(exchange, cause, n) ==
    IF cause = "persist" \/ (cause = "fetch" /\ exchange = KALSHI)
    THEN [state |-> "done", cause |-> cause, raised |-> TRUE]
    ELSE [state |-> "done", cause |-> cause, raised |-> FALSE, count |-> n]

(* Mutant: the exception of a future is not caught.                        *)
AfterResult_reraise(res, exchange, future) ==
    IF future.raised
    THEN [results |-> res, error |-> Some(future.cause)]
    ELSE [results |-> [res EXCEPT ![exchange] = future.count], error |-> None]

(* `try: results[exchange] = future.result()  except Exception: log`       *)
AfterResult(res, exchange, future) ==
    IF future.raised
    THEN [results |-> res, error |-> None]
    ELSE [results |-> [res EXCEPT ![exchange] = future.count], error |-> None]

(* The request arrives.  Anything but POST is answered 405; a body that is *)
(* JSON but no object makes data.get raise, which the view answers with    *)
(* 500; otherwise the two syncs are submitted.                             *)
SyncEventsRequest ==
    /\ sync_response = None
    /\ sync_futures = <<>>
    /\ \E method \in {"GET", "POST"}, body \in {"none", "filters", "not_an_object"} :
         IF method # "POST"
         THEN /\ sync_response' = Some([status |-> 405])
              /\ UNCHANGED <<sync_futures, sync_results>>
         ELSE IF body = "not_an_object"
         THEN /\ sync_response' = Some([status |-> 500, success |-> FALSE,
                                        error |-> "body"])
              /\ UNCHANGED <<sync_futures, sync_results>>
         ELSE /\ sync_futures' = [e \in {KALSHI, POLYMARKET} |-> [state |-> "running"]]
              /\ sync_results' = [e \in {KALSHI, POLYMARKET} |-> 0]
              /\ UNCHANGED sync_response
    /\ UNCHANGED <<arbVars, dbVars, matchVars, simVars, raceVars, tableVars,
                   raw_text, normalized, sync_run, synced_events,
                   synced_markets, client_request>>

(* The sync of an exchange returns or raises in its worker thread.         *)
ExchangeSyncEnds ==
    /\ sync_response = None
    /\ \E e \in DOMAIN sync_futures :
         /\ sync_futures[e].state = "running"
         /\ \E cause \in {"none", "fetch", "persist"}, n \in 0..MaxSynced :
              sync_futures' = [sync_futures EXCEPT ![e] = SyncEnd(e, cause, n)]
    /\ UNCHANGED <<arbVars, dbVars, matchVars, simVars, raceVars, tableVars,
                   raw_text, normalized, sync_results, sync_response,
                   sync_run, synced_events, synced_markets, client_request>>

(* as_completed yields a finished future and the loop body runs on it.     *)
CollectFuture ==
    /\ sync_response = None
    /\ \E e \in DOMAIN sync_futures :
         /\ sync_futures[e].state = "done"
         /\ LET after == AfterResult(sync_results, e, sync_futures[e])
            IN  /\ sync_futures' = [sync_futures EXCEPT ![e].state = "collected"]
                /\ sync_results' = after.results
                /\ sync_response' =
                     IF after.error = None THEN None
                     ELSE Some([status |-> 500, success |-> FALSE,
                                error |-> after.error[1]])
    /\ UNCHANGED <<arbVars, dbVars, matchVars, simVars, raceVars, tableVars,
                   raw_text, normalized, sync_run, synced_events,
                   synced_markets, client_request>>

(* sync_all_events returns `results` and the view answers with the counts. *)
SyncEventsResponds ==
    /\ sync_response = None
    /\ sync_futures # <<>>
    /\ \A e \in DOMAIN sync_futures : sync_futures[e].state = "collected"
    /\ sync_response' = Some([status |-> 200, success |-> TRUE,
                              kalshi_synced |-> sync_results[KALSHI],
                              polymarket_synced |-> sync_results[POLYMARKET]])
    /\ UNCHANGED <<arbVars, dbVars, matchVars, simVars, raceVars, tableVars,
                   raw_text, normalized, sync_futures, sync_results,
                   sync_run, synced_events, synced_markets, client_request>>

NextSyncAll ==
    \/ SyncEventsRequest
    \/ ExchangeSyncEnds
    \/ CollectFuture
    \/ SyncEventsResponds

SpecSyncAll == InitIdle /\ [][NextSyncAll]_vars

----------------------------------------------------------------------------
(* One run of sync_kalshi_events or sync_polymarket_events without tag     *)
(* filters.  A raw event is [id, slug, passes, markets]: id is its         *)
(* event_ticker (Kalshi) or id (Polymarket), slug its slug (Polymarket),   *)
(* 0 when the key is absent; passes tells whether its close time, volume   *)
(* and liquidity pass the client-side filters of _process_kalshi_event.   *)
(*  A raw market is [ticker, id, yes, no]: ticker   *)
(* is its ticker (Kalshi) or conditionId (Polymarket), id its id           *)
(* (Polymarket), 0 when absent; yes and no are yes_ask and no_ask as       *)
(* quoted (Kalshi) or the outcomePrices in hundredths (Polymarket).        *)
(* Stored prices are in hundredths.                                        *)
BATCH_SIZE == 500
limit == 200
MaxFetches == 4

(* Mutant: the flushed events are not counted.                             *)
flush_batch_uncounted(st) ==
    [st EXCEPT !.event_rows = @ \cup { st.events_batch[i] : i \in 1..Len(st.events_batch) },
               !.flushed = Append(@, st.events_batch),
               !.events_batch = <<>>,
               !.market_data_batch = <<>>]

(* _flush_kalshi_batch, _flush_polymarket_batch on the locals and tables   *)
(* st; the caller's `events_batch = []; market_data_batch = {}` follows    *)
(* every flush and is part of it here.  A market without ticker (Kalshi),  *)
(* without conditionId and id (Polymarket) is passed over.  A Kalshi ask   *)
(* above 1 is divided by 100, any other is stored as it is.                *)
flush_batch(st) ==
    LET Price(ask) ==
            IF st.exchange = KALSHI
            THEN (IF ask # 0 /\ ask > 1 THEN ask ELSE 100 * ask)
            ELSE ask
        ExternalId(m) ==
            IF st.exchange = KALSHI \/ m.ticker # 0 THEN m.ticker ELSE m.id
        batch == st.market_data_batch
        markets_to_create ==
            UNION { { [external_id |-> ExternalId(batch[i].markets[j]),
                       event |-> batch[i].event,
                       yes |-> Price(batch[i].markets[j].yes),
                       no |-> Price(batch[i].markets[j].no)] :
                        j \in { k \in 1..Len(batch[i].markets) :
                                  ExternalId(batch[i].markets[k]) # 0 } } :
                    i \in 1..Len(batch) }
    IN  IF st.events_batch = <<>> THEN st
        ELSE [st EXCEPT
                !.event_rows = @ \cup { st.events_batch[i] : i \in 1..Len(st.events_batch) },
                !.total_events = @ + Len(st.events_batch),
                !.flushed = Append(@, st.events_batch),
                !.market_rows =
                    { r \in @ : \A c \in markets_to_create :
                                    c.external_id # r.external_id }
                    \cup markets_to_create,
                !.events_batch = <<>>,
                !.market_data_batch = <<>>]

(* _process_kalshi_event, _process_polymarket_event: an event without its  *)
(* identifier or, on Kalshi, outside the filters is passed over; any other *)
(* is appended to the batch with its markets.                              *)
process_event(st, event_data) ==
    LET external_id == IF st.exchange = KALSHI \/ event_data.id # 0
                       THEN event_data.id ELSE event_data.slug
    IN  IF external_id = 0 \/ (st.exchange = KALSHI /\ ~event_data.passes)
        THEN st
        ELSE [st EXCEPT
                !.events_batch = Append(@, external_id),
                !.market_data_batch =
                    Append(@, [event |-> external_id, markets |-> event_data.markets])]

(* `for event_data in events:` over the events lo..hi of the page, in     *)
(* order (the first half, then the second): an event whose key is present  *)
(* and not seen yet is marked seen and processed, and the batch is flushed *)
(* when it has reached BATCH_SIZE.  The loop leaves the phase alone; the   *)
(* comparison has the first half evaluated before the second is begun.     *)
RECURSIVE ProcessPage(_, _, _, _)
ProcessPage(st, page_events, lo, hi) ==
    IF lo > hi THEN st
    ELSE IF lo < hi
    THEN LET mid == (lo + hi) \div 2
             half == ProcessPage(st, page_events, lo, mid)
         IN  IF half.phase = st.phase
             THEN ProcessPage(half, page_events, mid + 1, hi)
             ELSE half
    ELSE LET event_data == page_events[lo]
             processed ==
                 process_event([st EXCEPT !.seen = @ \cup {event_data.id},
                                          !.processed = Append(@, event_data.id)],
                               event_data)
         IN  IF event_data.id # 0 /\ event_data.id \notin st.seen
             THEN (IF Len(processed.events_batch) >= BATCH_SIZE
                   THEN flush_batch(processed) ELSE processed)
             ELSE st

(* What the exchange may answer to the next get_events of the run: a       *)
(* failure, no events, a full page of events not served before, or a last  *)
(* page of two events.  The first of the two has no key, or (Polymarket)   *)
(* a slug only, or (Kalshi) falls outside the filters, or repeats the      *)
(* event served last, or is a new one; the second is a new one with a      *)
(* market without ticker and one with a ticker, quoted q, or with one      *)
(* market that has an id only.  Once MaxFetches pages were asked for, the  *)
(* listing is at its end.                                                  *)
Responses(run) ==
    LET Fresh(id, mkts) == [id |-> id, slug |-> id, passes |-> TRUE, markets |-> mkts]
        next == run.fresh
        Quoted(e) ==
            { << [ticker |-> 0, id |-> 0, yes |-> q, no |-> 100 - q],
                 [ticker |-> e, id |-> e, yes |-> q, no |-> 100 - q] >> :
                q \in {1, 2, 99} }
            \cup { << [ticker |-> 0, id |-> e, yes |-> 50, no |-> 50] >> }
        First ==
            { [id |-> 0, slug |-> 0, passes |-> TRUE, markets |-> <<>>],
              Fresh(next, <<>>) }
            \cup (IF run.exchange = KALSHI
                  THEN { [id |-> next, slug |-> 0, passes |-> FALSE, markets |-> <<>>] }
                  ELSE { [id |-> 0, slug |-> next, passes |-> TRUE, markets |-> <<>>] })
            \cup (IF run.served = <<>> THEN {}
                  ELSE { run.served[Len(run.served)] })
        full == [i \in 1..limit |-> Fresh(next + i - 1, <<>>)]
        empty == [failed |-> FALSE, events |-> <<>>, cursor |-> FALSE]
    IN  IF run.fetches >= MaxFetches THEN { empty }
        ELSE { empty, [failed |-> TRUE, events |-> <<>>, cursor |-> FALSE] }
             \cup { [failed |-> FALSE, events |-> full, cursor |-> c] :
                      c \in IF run.exchange = KALSHI THEN BOOLEAN ELSE {FALSE} }
             \cup { [failed |-> FALSE, events |-> <<r1, Fresh(next + 1, mkts)>>,
                     cursor |-> FALSE] :
                      r1 \in First, mkts \in Quoted(next + 1) }

(* The sync of an exchange is called: the locals are set, the tables are   *)
(* empty.                                                                  *)
StartSync ==
    /\ sync_run.phase = "idle"
    /\ \E exchange \in {KALSHI, POLYMARKET} :
         sync_run' = [exchange |-> exchange,
                      phase |-> IF exchange = KALSHI THEN "regular" ELSE "events",
                      fetches |-> 0, fresh |-> 1, served |-> <<>>,
                      seen |-> {}, processed |-> <<>>,
                      events_batch |-> <<>>, market_data_batch |-> <<>>,
                      total_events |-> 0, flushed |-> <<>>,
                      returned |-> None]
    /\ UNCHANGED <<arbVars, dbVars, matchVars, simVars, raceVars, tableVars,
                   raw_text, normalized, sync_futures, sync_results,
                   sync_response, synced_events, synced_markets,
                   client_request>>

(* One turn of a `while True:` loop: a page is fetched and processed.      *)
(* sync_kalshi_events leaves the loop of a listing when the page has no    *)
(* cursor or no events (the multivariate listing follows the regular one)  *)
(* and lets a failed fetch out through `raise`; sync_polymarket_events     *)
(* leaves its loop on a failed fetch, on a page without events and after a *)
(* page of fewer than `limit` events.                                      *)
FetchPage ==
    /\ sync_run.phase \in {"regular", "multivariate", "events"}
    /\ \E resp \in Responses(sync_run) :
         LET tables == [event_rows |-> synced_events, market_rows |-> synced_markets]
             before == [sync_run EXCEPT
                          !.fetches = @ + 1,
                          !.served = @ \o resp.events,
                          !.fresh = @ + Len(resp.events)]
             after == ProcessPage(before @@ tables, resp.events, 1, Len(resp.events))
             last == IF sync_run.exchange = KALSHI
                     THEN ~resp.cursor \/ resp.events = <<>>
                     ELSE resp.failed \/ Len(resp.events) < limit
             phase == IF resp.failed /\ sync_run.exchange = KALSHI THEN "raised"
                      ELSE IF ~last THEN sync_run.phase
                      ELSE IF sync_run.phase = "regular" THEN "multivariate"
                      ELSE "flushing"
         IN  /\ sync_run' = [f \in DOMAIN sync_run |->
                               IF f = "phase" THEN phase ELSE after[f]]
             /\ synced_events' = after.event_rows
             /\ synced_markets' = after.market_rows
    /\ UNCHANGED <<arbVars, dbVars, matchVars, simVars, raceVars, tableVars,
                   raw_text, normalized, sync_futures, sync_results,
                   sync_response, client_request>>

(* `if events_batch: flush`, then the placeholder list of total_events[0]  *)
(* entries is returned.                                                    *)
FinishSync ==
    /\ sync_run.phase = "flushing"
    /\ LET tables == [event_rows |-> synced_events, market_rows |-> synced_markets]
           after == flush_batch(sync_run @@ tables)
       IN  /\ sync_run' = [f \in DOMAIN sync_run |->
                             IF f = "phase" THEN "returned"
                             ELSE IF f = "returned" THEN Some(after.total_events)
                             ELSE after[f]]
           /\ synced_events' = after.event_rows
           /\ synced_markets' = after.market_rows
    /\ UNCHANGED <<arbVars, dbVars, matchVars, simVars, raceVars, tableVars,
                   raw_text, normalized, sync_futures, sync_results,
                   sync_response, client_request>>

NextSyncRun ==
    \/ StartSync
    \/ FetchPage
    \/ FinishSync

SpecSyncRun == InitIdle /\ [][NextSyncRun]_vars

----------------------------------------------------------------------------
(* One request of an exchange client: KalshiClient._request,               *)
(* PolymarketClient._gamma_request and PolymarketClient._clob_request      *)
(* share the loop `for attempt in range(self.MAX_RETRIES)`.  An attempt    *)
(* ends with a response, with a requests.exceptions.RequestException,      *)
(* which the loop catches, or with another exception, which it does not.   *)
(* Delays are in seconds.                                                  *)
MAX_RETRIES == 3
RETRY_DELAY == 2

(* Mutant: the loop sleeps after every failed attempt.                     *)
SleepsAfter_every(attempt) == TRUE

(* `if attempt < self.MAX_RETRIES - 1:` before time.sleep.                 *)
SleepsAfter(attempt) == attempt < MAX_RETRIES - 1

(* A client method calls the request function of its API.                  *)
StartRequest ==
    /\ client_request.pc = "idle"
    /\ \E api \in {"kalshi", "gamma", "clob"} :
         client_request' = [api |-> api, pc |-> "attempt", attempt |-> 0,
                            outcomes |-> <<>>, slept |-> <<>>,
                            last_error |-> None, result |-> None]
    /\ UNCHANGED <<arbVars, dbVars, matchVars, simVars, raceVars, tableVars,
                   raw_text, normalized, sync_futures, sync_results,
                   sync_response, sync_run, synced_events, synced_markets>>

(* The end of a turn of the loop that caught a failure: the next attempt,  *)
(* or after the last turn `raise last_error`.                              *)
NextTurn(req) ==
    IF req.attempt + 1 < MAX_RETRIES
    THEN [req EXCEPT !.attempt = @ + 1, !.pc = "attempt"]
    ELSE [req EXCEPT !.attempt = @ + 1, !.pc = "raised",
                     !.result = req.last_error]

(* The body of the loop for the present attempt, up to the sleep: a        *)
(* response is returned, an exception that is no RequestException leaves   *)
(* the function, a RequestException is kept as last_error.                 *)
Attempt ==
    /\ client_request.pc = "attempt"
    /\ \E outcome \in [kind : {"response"}, value : {1, 2}]
                      \cup [kind : {"RequestException", "other"}, value : {1, 2}] :
         LET tried == [client_request EXCEPT !.outcomes = Append(@, outcome)]
             caught == [tried EXCEPT !.last_error = Some(outcome)]
         IN  client_request' =
               IF outcome.kind = "response"
               THEN [tried EXCEPT !.pc = "returned",
                                  !.result = Some(outcome.value)]
               ELSE IF outcome.kind = "other"
               THEN [tried EXCEPT !.pc = "raised", !.result = Some(outcome)]
               ELSE IF SleepsAfter(client_request.attempt)
               THEN [caught EXCEPT !.pc = "sleep"]
               ELSE NextTurn(caught)
    /\ UNCHANGED <<arbVars, dbVars, matchVars, simVars, raceVars, tableVars,
                   raw_text, normalized, sync_futures, sync_results,
                   sync_response, sync_run, synced_events, synced_markets>>

(* `time.sleep(self.RETRY_DELAY * (attempt + 1))`, then the next turn.     *)
Sleep ==
    /\ client_request.pc = "sleep"
    /\ client_request' =
         NextTurn([client_request EXCEPT
                     !.slept = Append(@, RETRY_DELAY * (client_request.attempt + 1))])
    /\ UNCHANGED <<arbVars, dbVars, matchVars, simVars, raceVars, tableVars,
                   raw_text, normalized, sync_futures, sync_results,
                   sync_response, sync_run, synced_events, synced_markets>>

NextRequest ==
    \/ StartRequest
    \/ Attempt
    \/ Sleep

SpecRequest == InitIdle /\ [][NextRequest]_vars

----------------------------------------------------------------------------
(* What a market's outcome list says, read off declaratively: an outcome   *)
(* counts for Yes when its lowercased name contains "yes", for No when it  *)
(* contains "no" and not "yes"; it is priced when its price is positive;   *)
(* the last priced outcome of a side gives the side's price.               *)
YesLike(o) == Contains(lower(o.name), yes)
NoLike(o) == ~YesLike(o) /\ Contains(lower(o.name), no)
PricedYes(outcomes) == { i \in 1..Len(outcomes) : YesLike(outcomes[i]) /\ outcomes[i].price > 0 }
PricedNo(outcomes) == { i \in 1..Len(outcomes) : NoLike(outcomes[i]) /\ outcomes[i].price > 0 }
MaxOf(S) == CHOOSE x \in S : \A y \in S : y <= x
HasYesPrice(outcomes) == PricedYes(outcomes) # {}
HasNoPrice(outcomes) == PricedNo(outcomes) # {}
YesPriceOf(outcomes) == outcomes[MaxOf(PricedYes(outcomes))].price
NoPriceOf(outcomes) == outcomes[MaxOf(PricedNo(outcomes))].price
PairCost(outcomes) == YesPriceOf(outcomes) + NoPriceOf(outcomes)

(* C3: detect_single_market_arb returns an opportunity exactly when the    *)
(* market has a defined Yes price and a defined No price and their sum is  *)
(* below 0.99; a total cost of 0.99 or more yields None.                   *)
C3_SingleArbIff ==
    called = "single" =>
        LET o == input.market.outcomes
        IN  /\ (arb # None) <=>
                 (HasYesPrice(o) /\ HasNoPrice(o) /\ PairCost(o) < 99)
            /\ (HasYesPrice(o) /\ HasNoPrice(o) /\ PairCost(o) >= 99) => arb = None

C3_Witness ==
    /\ called = "single"
    /\ arb # None
    /\ PairCost(input.market.outcomes) = 95

(* C4: a reported single-market opportunity has yes + no < 1 strictly,     *)
(* total_cost = yes + no, profit = 1 - total_cost, profit_percent =        *)
(* (1 - total_cost) / total_cost * 100, expected_value = 1 / total_cost    *)
(* and guaranteed_return = 1.0; Yes 0.40 / No 0.55 gives 0.95 and 0.05.    *)
C4_SingleArbValues ==
    (called = "single" /\ arb # None) =>
        LET a == arb[1]
            y == a.positions[1].price
            n == a.positions[2].price
        IN  /\ Len(a.positions) = 2
            /\ a.positions[1].outcome = "Yes" /\ a.positions[2].outcome = "No"
            /\ y = YesPriceOf(input.market.outcomes)
            /\ n = NoPriceOf(input.market.outcomes)
            /\ y + n < 100
            /\ a.total_cost = y + n
            /\ a.profit = 100 - a.total_cost
            /\ FracEQ(a.profit_percent, Frac((100 - a.total_cost) * 100, a.total_cost))
            /\ FracEQ(a.expected_value, Frac(100, a.total_cost))
            /\ a.guaranteed_return = 100
            /\ (y = 40 /\ n = 55) => (a.total_cost = 95 /\ a.profit = 5)

C4_Witness ==
    /\ called = "single"
    /\ input.market.outcomes = Binary(40, 55)
    /\ arb # None
    /\ arb[1].total_cost = 95

(* The two hedges of a match, read off the two outcome lists.              *)
Hedge1Qualifies(m) ==
    /\ HasYesPrice(m.kalshi_market.outcomes)
    /\ HasNoPrice(m.polymarket_market.outcomes)
    /\ YesPriceOf(m.kalshi_market.outcomes) + NoPriceOf(m.polymarket_market.outcomes) < 99
Hedge2Qualifies(m) ==
    /\ HasYesPrice(m.polymarket_market.outcomes)
    /\ HasNoPrice(m.kalshi_market.outcomes)
    /\ YesPriceOf(m.polymarket_market.outcomes) + NoPriceOf(m.kalshi_market.outcomes) < 99
Hedge1Cost(m) == YesPriceOf(m.kalshi_market.outcomes) + NoPriceOf(m.polymarket_market.outcomes)
Hedge2Cost(m) == YesPriceOf(m.polymarket_market.outcomes) + NoPriceOf(m.kalshi_market.outcomes)
PercentOfCost(c) == Frac((100 - c) * 100, c)
IsHedge1(a, m) ==
    /\ a.positions[1].exchange = KALSHI /\ a.positions[1].outcome = "Yes"
    /\ a.positions[1].price = YesPriceOf(m.kalshi_market.outcomes)
    /\ a.positions[2].exchange = POLYMARKET /\ a.positions[2].outcome = "No"
    /\ a.positions[2].price = NoPriceOf(m.polymarket_market.outcomes)
    /\ a.total_cost = Hedge1Cost(m)
IsHedge2(a, m) ==
    /\ a.positions[1].exchange = POLYMARKET /\ a.positions[1].outcome = "Yes"
    /\ a.positions[1].price = YesPriceOf(m.polymarket_market.outcomes)
    /\ a.positions[2].exchange = KALSHI /\ a.positions[2].outcome = "No"
    /\ a.positions[2].price = NoPriceOf(m.kalshi_market.outcomes)
    /\ a.total_cost = Hedge2Cost(m)

(* C5: detect_cross_exchange_arb returns the qualifying hedge with the     *)
(* higher profit_percent, the first hedge (Kalshi Yes + Polymarket No)     *)
(* when both are equal, and None when neither hedge qualifies.             *)
C5_CrossArbBestHedge ==
    called = "cross" =>
        LET m == input.match
            q1 == Hedge1Qualifies(m)
            q2 == Hedge2Qualifies(m)
        IN  /\ (~q1 /\ ~q2) => arb = None
            /\ (q1 /\ ~q2) => (arb # None /\ IsHedge1(arb[1], m))
            /\ (~q1 /\ q2) => (arb # None /\ IsHedge2(arb[1], m))
            /\ (q1 /\ q2) =>
                 /\ arb # None
                 /\ IF FracGT(PercentOfCost(Hedge2Cost(m)), PercentOfCost(Hedge1Cost(m)))
                    THEN IsHedge2(arb[1], m)
                    ELSE IsHedge1(arb[1], m)

(* Both hedges qualify with equal profit and the first one is returned.    *)
C5_Witness ==
    /\ called = "cross"
    /\ Hedge1Qualifies(input.match) /\ Hedge2Qualifies(input.match)
    /\ Hedge1Cost(input.match) = Hedge2Cost(input.match)
    /\ YesPriceOf(input.match.kalshi_market.outcomes)
         # YesPriceOf(input.match.polymarket_market.outcomes)
    /\ arb # None
    /\ arb[1].positions[1].exchange = KALSHI

----------------------------------------------------------------------------
ActiveRows(rows) == { i \in 1..Len(rows) : rows[i].is_active }

(* What a row says about the opportunity, apart from its key and status.   *)
RowContent(r) == <<r.arb_type, r.market_match, r.positions, r.profit_percent,
                   r.expected_value, r.markets>>

(* C1: when save_opportunities(opps) returns, the number of rows with      *)
(* is_active = true is len(opps) of that run and every row of an earlier   *)
(* run is inactive; this stays so until the next run.                      *)
C1_ActiveIsLatestRun ==
    /\ [](/\ Cardinality(ActiveRows(arb_rows)) = Len(saved)
          /\ \A i \in 1..Len(arb_rows) :
               arb_rows[i].is_active <=> arb_rows[i].created_at = runs)
    /\ [][runs' # runs =>
            /\ Cardinality(ActiveRows(arb_rows')) = Len(opportunities)
            /\ Len(saved') = Len(opportunities)
            /\ \A i \in 1..Len(arb_rows) : ~arb_rows'[i].is_active]_vars

(* The second run has stored its rows and the rows of the first run are    *)
(* inactive.                                                               *)
C1_Witness ==
    /\ runs = 2
    /\ \E i, j \in 1..Len(arb_rows) :
         /\ arb_rows[i].created_at = 1 /\ ~arb_rows[i].is_active
         /\ arb_rows[j].created_at = 2 /\ arb_rows[j].is_active

SingleArbOf(id) == detect_single_market_arb(MarketRow(id))
CrossArbOf(id) == detect_cross_exchange_arb(MatchRow(id))
TypeOf(exchange) == IF exchange = KALSHI THEN KALSHI_ONLY ELSE POLYMARKET_ONLY
ExpectedSingles ==
    { id \in DOMAIN markets : markets[id].is_active /\ SingleArbOf(id) # None }
ExpectedCrosses ==
    { id \in DOMAIN market_matches :
        /\ markets[market_matches[id].kalshi_market].is_active
        /\ markets[market_matches[id].polymarket_market].is_active
        /\ CrossArbOf(id) # None }

C7_Post(opps) ==
    /\ Len(opps) = Cardinality(ExpectedSingles) + Cardinality(ExpectedCrosses)
    /\ \A id \in ExpectedSingles :
         \E k \in 1..Len(opps) :
             /\ opps[k] = [type |-> TypeOf(markets[id].exchange)] @@ SingleArbOf(id)[1]
    /\ \A id \in ExpectedCrosses :
         \E k \in 1..Len(opps) :
             /\ opps[k] = [type |-> CROSS_EXCHANGE] @@ CrossArbOf(id)[1]
    /\ \A k \in 1..(Len(opps) - 1) :
         FracGE(opps[k].profit_percent, opps[k + 1].profit_percent)
    /\ \A k \in 1..Len(opps) :
         /\ "market" \in DOMAIN opps[k] => markets[opps[k].market].is_active
         /\ "match" \in DOMAIN opps[k] =>
              /\ markets[market_matches[opps[k].match].kalshi_market].is_active
              /\ markets[market_matches[opps[k].match].polymarket_market].is_active
         /\ \A q \in 1..Len(opps[k].positions) :
              markets[opps[k].positions[q].market_id].is_active

(* C7: find_all_opportunities returns the single-market opportunities of   *)
(* all active markets of both exchanges and the cross-exchange             *)
(* opportunities of all matches whose two markets are active, as one list  *)
(* ordered by profit_percent non-increasing; none refers to an inactive    *)
(* market.                                                                 *)
C7_FindAllComplete ==
    [][FindAllOpportunities => C7_Post(opportunities')]_vars

(* A scan over a catalog with an inactive market that would pay, which     *)
(* returned a single-market and a cross-exchange opportunity of different  *)
(* profit.                                                                 *)
C7_Witness ==
    /\ Len(opportunities) >= 3
    /\ \E k \in 1..(Len(opportunities) - 1) :
         /\ FracGT(opportunities[k].profit_percent, opportunities[k + 1].profit_percent)
         /\ opportunities[k].type = CROSS_EXCHANGE
         /\ opportunities[k + 1].type # CROSS_EXCHANGE
    /\ \E id \in DOMAIN markets : ~markets[id].is_active /\ SingleArbOf(id) # None
    /\ C7_Post(opportunities)

----------------------------------------------------------------------------
(* The threshold a call works with: the one passed, 0.5 when none (or 0)   *)
(* is passed.                                                              *)
ThresholdInEffect ==
    IF threshold_arg = None \/ threshold_arg = Some(0) THEN 50 ELSE threshold_arg[1]

(* C8: find_matches returns at most one tuple per element of A, every      *)
(* returned score is at least the threshold in effect, and the result is   *)
(* empty whenever A or B is empty.                                         *)
C8_FindMatchesShape ==
    fm_pc = "done" =>
        /\ \A i, j \in 1..Len(matches) : matches[i][1] = matches[j][1] => i = j
        /\ \A i \in 1..Len(matches) :
             /\ matches[i][1] \in 1..Len(kalshi_events)
             /\ matches[i][2] \in 1..Len(polymarket_events)
             /\ matches[i][3] = sim[matches[i][1]][matches[i][2]]
             /\ matches[i][3] >= ThresholdInEffect
        /\ (kalshi_events = <<>> \/ polymarket_events = <<>>) => matches = <<>>

(* A call over two Kalshi events of which one found a match and the other  *)
(* stayed below the threshold.                                             *)
C8_Witness ==
    /\ fm_pc = "done"
    /\ Len(kalshi_events) = 2
    /\ Len(matches) = 1
    /\ \E a \in 1..2 : \E b \in 1..Len(polymarket_events) :
         sim[a][b] > 0 /\ \A i \in 1..Len(matches) : matches[i][1] # a

(* C9: the b returned for a is an argmax of score(a, b) over all of B, and *)
(* among several b of maximal score it is the first in B's order.          *)
C9_ArgmaxFirst ==
    \A a \in DOMAIN futures :
        futures[a].result # None =>
            LET r == futures[a].result[1]
                b == r[2]
            IN  /\ r[1] = kalshi_events[a]
                /\ r[3] = sim[a][b]
                /\ \A i \in 1..Len(polymarket_events) :
                     sim[a][polymarket_events[i]] <= r[3]
                /\ \A i, j \in 1..Len(polymarket_events) :
                     (polymarket_events[j] = b /\ i < j) =>
                         sim[a][polymarket_events[i]] < r[3]

(* Two candidates tie at the maximal score and the first one is returned.  *)
C9_Witness ==
    \E a \in DOMAIN futures :
        /\ futures[a].result # None
        /\ Len(polymarket_events) = 2
        /\ sim[a][1] = sim[a][2]
        /\ futures[a].result[1][2] = 1

(* C10: for the same A and B and thresholds t1 < t2 in [0,1], find_matches *)
(* with t2 returns no more matches than with t1.                           *)
C10_ThresholdMonotone ==
    (fm_pc = "done" /\ previous # None
       /\ previous[1].arg # None /\ threshold_arg # None) =>
        LET t_prev == previous[1].arg[1]
            t_now == threshold_arg[1]
        IN  /\ t_prev < t_now => Len(matches) <= Len(previous[1].matches)
            /\ t_now < t_prev => Len(previous[1].matches) <= Len(matches)

(* The score a pair gets when it is scored with nothing else running.      *)
ScoredAlone(w) == compute_similarity(jobs[w].f, jobs[w].vec).combined_score

(* C11: the scoring tasks share no mutable state: under every interleaving *)
(* of the workers, the score a task computes for its pair equals the score *)
(* of that pair computed alone.                                            *)
C11_TasksPure ==
    \A w \in DOMAIN workers :
        workers[w].pc = "done" =>
            FracEQ(workers[w].result[1].combined_score, ScoredAlone(w))

(* The tasks that produced a match.                                        *)
Matched == { a \in DOMAIN futures : futures[a].result # None }

(* C12: find_matches returns only after every task it dispatched has       *)
(* completed, and the returned list holds exactly one entry for each task  *)
(* that produced a match: no result is lost or duplicated, whatever the    *)
(* order of completion.                                                    *)
C12_JoinBarrier ==
    fm_pc = "done" =>
        /\ \A a \in DOMAIN futures : futures[a].state = "collected"
        /\ Len(matches) = Cardinality(Matched)
        /\ \A a \in Matched :
             Cardinality({ i \in 1..Len(matches) :
                             matches[i] = futures[a].result[1] }) = 1
        /\ \A i \in 1..Len(matches) :
             \E a \in Matched : futures[a].result[1] = matches[i]

(* Both tasks produced a match of the same score and the task of the       *)
(* second Kalshi event was collected first.                                *)
C12_Witness ==
    /\ fm_pc = "done"
    /\ Len(matches) = 2
    /\ matches[1][3] = matches[2][3]
    /\ matches[1][1] = 2

(* C13: the returned list is in non-increasing order of score whatever the *)
(* order of completion; the order of completion shows at most in the       *)
(* relative order of entries of equal score.                               *)
C13_SortedByScore ==
    fm_pc = "done" =>
        /\ \A i, j \in 1..Len(matches) : i < j => matches[i][3] >= matches[j][3]
        /\ \A a, c \in Matched :
             futures[a].result[1][3] > futures[c].result[1][3] =>
                 \E i, j \in 1..Len(matches) :
                     /\ i < j
                     /\ matches[i] = futures[a].result[1]
                     /\ matches[j] = futures[c].result[1]

(* Two matches of different scores, the one of the second Kalshi event in  *)
(* front.                                                                  *)
C13_Witness ==
    /\ fm_pc = "done"
    /\ Len(matches) = 2
    /\ matches[1][3] > matches[2][3]
    /\ matches[1][1] = 2

(* The combined score that the six signals other than tfidf_score give.    *)
RemainingSignals(b) ==
    LET sum == FracAdd(FracTimes(25, 100, b.year_score),
               FracAdd(FracTimes(10, 100, b.date_score),
               FracAdd(FracTimes(15, 100, b.topic_score),
               FracAdd(FracTimes(20, 100, b.term_score),
               FracAdd(FracTimes(10, 100, b.entity_score),
                       FracTimes(5, 100, b.number_score))))))
        boosted == Frac(sum[1] * 12, sum[2] * 10)
    IN  IF StrongSignals(b) < 3 THEN sum
        ELSE IF FracGT(boosted, Frac(1, 1)) THEN Frac(1, 1) ELSE boosted

(* C14: when the TF-IDF step fails for a pair, compute_similarity does not *)
(* raise: it returns the combined score of the remaining signals with      *)
(* tfidf_score = 0, and the other pairs of the run are scored as well.     *)
C14_TfidfFailureContained ==
    \A w \in DOMAIN workers :
        workers[w].pc = "done" =>
            LET r == workers[w].result[1]
            IN  /\ r.raised = FALSE
                /\ jobs[w].vec = None =>
                     /\ FracEQ(r.breakdown.tfidf_score, Frac(0, 1))
                     /\ FracEQ(r.combined_score, RemainingSignals(r.breakdown))

(* The vectorizer failed for the pair of one worker; the run went on and   *)
(* another worker scored its pair with a positive cosine.                  *)
C14_Witness ==
    \E w, v \in DOMAIN workers :
        /\ w # v
        /\ workers[w].pc = "done"
        /\ workers[v].pc = "done"
        /\ jobs[w].vec = None
        /\ workers[w].result[1].combined_score[1] > 0
        /\ workers[v].result[1].breakdown.tfidf_score[1] > 0

(* C15: running match resolution and create_match_records twice on the     *)
(* same events leaves as many EventMatch rows as running it once, and at   *)
(* all times there is at most one row per (Kalshi event, Polymarket event) *)
(* pair.                                                                   *)
C15_UpsertIdempotent ==
    /\ Len(last_refresh) = 2 => last_refresh[1] = last_refresh[2]
    /\ \A r, q \in event_matches :
         SamePair(r, q.kalshi_event, q.polymarket_event) => r = q

(* The row of event_matches with the primary key id, as a set.             *)
RowsWithId(rows, id) == { r \in rows : r.id = id }

(* C16: after any sequence of verify toggles, manual creations and         *)
(* matching runs, verified_at is set exactly on the verified rows: a       *)
(* toggle to true sets it, a toggle to false clears it, and no other       *)
(* operation changes it.                                                   *)
C16_VerifiedAtIff ==
    /\ [](\A r \in event_matches : r.verified_at # None <=> r.is_verified)
    /\ [][\A r \in event_matches' :
            IF RowsWithId(event_matches, r.id) = {}
            THEN r.verified_at = None /\ ~r.is_verified
            ELSE \A old \in RowsWithId(event_matches, r.id) :
                   /\ (old.is_verified # r.is_verified \/ old.verified_at # r.verified_at) =>
                        /\ response'.op = "verify"
                        /\ old.is_verified # r.is_verified
                   /\ (~old.is_verified /\ r.is_verified) => r.verified_at = Some(clock')
                   /\ (old.is_verified /\ ~r.is_verified) => r.verified_at = None]_vars

(* A row was verified and then toggled back.                               *)
C16_Witness ==
    /\ response = [op |-> "verify", status |-> 200]
    /\ clock = 1
    /\ event_matches # {}
    /\ \A r \in event_matches : ~r.is_verified /\ r.verified_at = None

(* The request names an event of the other exchange.                       *)
WrongExchange(kalshi_event_id, polymarket_event_id) ==
    \/ /\ kalshi_event_id # None
       /\ kalshi_event_id[1] \in DOMAIN events
       /\ events[kalshi_event_id[1]].exchange # KALSHI
    \/ /\ polymarket_event_id # None
       /\ polymarket_event_id[1] \in DOMAIN events
       /\ events[polymarket_event_id[1]].exchange # POLYMARKET

(* C17: after any sequence of create_event_match and                       *)
(* refresh_event_matches requests, every EventMatch row has a Kalshi event *)
(* as kalshi_event and a Polymarket event as polymarket_event; a manual    *)
(* creation that names an event of the wrong exchange is rejected and      *)
(* persists nothing.                                                       *)
C17_ExchangeSides ==
    /\ [](\A r \in event_matches :
            /\ events[r.kalshi_event].exchange = KALSHI
            /\ events[r.polymarket_event].exchange = POLYMARKET)
    /\ [][(/\ response'.op = "create"
           /\ WrongExchange(response'.kalshi_event_id, response'.polymarket_event_id)) =>
              /\ response'.status \in {400, 404}
              /\ event_matches' = event_matches]_vars

(* A creation naming the Polymarket event as the Kalshi side was rejected  *)
(* while the table held a manual and a matched row.                        *)
C17_Witness ==
    /\ response = CreateResponse(Some(3), Some(3), 404)
    /\ \E r \in event_matches : r.match_reason = "Manual match"
    /\ \E r \in event_matches : r.match_reason # "Manual match"

InUnit(x) == FracGE(x, Frac(0, 1)) /\ FracGE(Frac(1, 1), x)

AllOnes ==
    [year_score |-> Frac(1, 1), date_score |-> Frac(1, 1), topic_score |-> Frac(1, 1),
     term_score |-> Frac(1, 1), entity_score |-> Frac(1, 1), number_score |-> Frac(1, 1),
     tfidf_score |-> Frac(1, 1)]

(* C18: the combined score of compute_similarity lies in [0,1] for all     *)
(* inputs: the seven weights sum to 1.0, every signal lies in [0,1], and   *)
(* the bonus is capped at 1.0.                                             *)
C18_ScoreInUnitInterval ==
    /\ FracEQ(WeightedSum(AllOnes), Frac(1, 1))
    /\ scored # None =>
         LET r == scored[1]
             b == r.breakdown
         IN  /\ InUnit(r.combined_score)
             /\ InUnit(b.year_score) /\ InUnit(b.date_score)
             /\ InUnit(b.topic_score) /\ InUnit(b.term_score)
             /\ InUnit(b.entity_score) /\ InUnit(b.number_score)
             /\ InUnit(b.tfidf_score)

(* The bonus applied and the cap cut the score back to 1.0.                *)
C18_Witness ==
    /\ scored # None
    /\ StrongSignals(scored[1].breakdown) >= 3
    /\ FracGT(FracTimes(12, 10, WeightedSum(scored[1].breakdown)), Frac(1, 1))
    /\ FracEQ(scored[1].combined_score, Frac(1, 1))

(* The Jaccard index of two sets, 0 when either is empty.                  *)
Jaccard(X1, X2) ==
    IF X1 = {} \/ X2 = {} THEN Frac(0, 1)
    ELSE Frac(Cardinality(X1 \cap X2), Cardinality(X1 \cup X2))

(* The common elements against the larger of the two sets, 0 when either   *)
(* is empty.                                                               *)
OverLarger(X1, X2) ==
    IF X1 = {} \/ X2 = {} THEN Frac(0, 1)
    ELSE IF Cardinality(X1) >= Cardinality(X2)
         THEN Frac(Cardinality(X1 \cap X2), Cardinality(X1))
         ELSE Frac(Cardinality(X1 \cap X2), Cardinality(X2))

(* C19 as stated: the topic, named-entity and number signals each equal    *)
(* the Jaccard index |X1 n X2| / |X1 u X2| of the two extracted sets (0    *)
(* when either set is empty).                                              *)
C19_OverlapIsJaccard ==
    scored # None =>
        LET b == scored[1].breakdown
            f == FeaturesOf(pair)
        IN  /\ FracEQ(b.topic_score, Jaccard(f.topics1, f.topics2))
            /\ FracEQ(b.entity_score, Jaccard(f.entities1, f.entities2))
            /\ FracEQ(b.number_score, Jaccard(f.numbers1, f.numbers2))

(* C19 amended: the topic, named-entity and number signals each equal      *)
(* |X1 n X2| / max(|X1|, |X2|) (0 when either set is empty); the key-term  *)
(* signal is the Jaccard index.                                            *)
C19_OverlapOverLarger ==
    scored # None =>
        LET b == scored[1].breakdown
            f == FeaturesOf(pair)
        IN  /\ FracEQ(b.topic_score, OverLarger(f.topics1, f.topics2))
            /\ FracEQ(b.entity_score, OverLarger(f.entities1, f.entities2))
            /\ FracEQ(b.number_score, OverLarger(f.numbers1, f.numbers2))
            /\ FracEQ(b.term_score, Jaccard(f.terms1, f.terms2))

(* Two entity sets of two elements that share one: the signal is 1/2, the  *)
(* Jaccard index 1/3.                                                      *)
C19_Witness ==
    /\ scored # None
    /\ pair.kind = "features"
    /\ pair.f.entities1 = {1, 2}
    /\ pair.f.entities2 = {2, 3}
    /\ FracEQ(scored[1].breakdown.entity_score, Frac(1, 2))
    /\ ~FracEQ(scored[1].breakdown.entity_score,
               Jaccard(pair.f.entities1, pair.f.entities2))

(* C20: for the titles "Fed raises rates in 2025" and "Federal Reserve     *)
(* rate hike 2025" compute_similarity yields year_score = 1.0,             *)
(* topic_score > 0 and a combined score above the default threshold 0.5,   *)
(* so that find_matches with the default threshold matches the two.        *)
C20_FedScenario ==
    (/\ scored # None
     /\ pair.kind = "titles"
     /\ pair.text1 = FedRaises
     /\ pair.text2 = FederalReserveHike) =>
        LET r == scored[1]
        IN  /\ FracEQ(r.breakdown.year_score, Frac(1, 1))
            /\ FracGT(r.breakdown.topic_score, Frac(0, 1))
            /\ FracGT(r.combined_score, Frac(1, 2))
            /\ FracGE(r.combined_score, Frac(EffectiveThreshold(None), 100))

(* A normalized string: lower-case letters and digits in words separated   *)
(* by single spaces, no space at either end.                               *)
IsNormalized(s) ==
    /\ \A i \in 1..Len(s) : IsLower(s[i]) \/ IsDigit(s[i]) \/ s[i] = " "
    /\ Len(s) > 0 => s[1] # " " /\ s[Len(s)] # " "
    /\ \A i \in 1..(Len(s) - 1) : ~(s[i] = " " /\ s[i + 1] = " ")

(* C21: normalize_text is idempotent, normalize_text(normalize_text(s)) =  *)
(* normalize_text(s) for every string s, and its result holds only         *)
(* lower-case letters, digits and single interior spaces, with no leading  *)
(* or trailing space.                                                      *)
C21_NormalizeIdempotent ==
    /\ \A i \in 1..Len(normalized) : IsNormalized(normalized[i])
    /\ Len(normalized) = 2 => normalized[2] = normalized[1]

(* A string with an upper-case letter, a punctuation mark, a tab next to a *)
(* space and a space at the end has been normalized twice.                 *)
C21_Witness ==
    /\ Len(normalized) = 2
    /\ raw_text = Some(<<"A", "-", "\t", " ">>)
    /\ normalized[1] = <<"a">>
    /\ normalized[2] = <<"a">>

(* A sync of the request met a failing catalog fetch.                      *)
FetchFailed ==
    \E e \in DOMAIN sync_futures :
        sync_futures[e].state # "running" /\ sync_futures[e].cause = "fetch"

(* C22: when a catalog fetch for an exchange fails during sync_events, the *)
(* failure reaches the caller as a terminal error: the response reports a  *)
(* failure reason and does not report success with counts.                 *)
C22_FetchFailurePropagates ==
    (sync_response # None /\ FetchFailed) =>
        /\ sync_response[1].status = 500
        /\ ~sync_response[1].success

(* C23: in sync_all_events a failure of one exchange's sync never prevents *)
(* the other exchange's sync from running to completion and having its     *)
(* result returned: the response is given only when both syncs have ended, *)
(* and what a sync returned is what the response reports for its exchange, *)
(* whatever the other sync did.                                            *)
C23_SyncsIndependent ==
    (sync_response # None /\ sync_futures # <<>>) =>
        /\ sync_response[1].status = 200
        /\ \A e \in DOMAIN sync_futures :
             /\ sync_futures[e].state = "collected"
             /\ ~sync_futures[e].raised =>
                  sync_futures[e].count =
                    IF e = KALSHI THEN sync_response[1].kalshi_synced
                    ELSE sync_response[1].polymarket_synced

(* The Kalshi sync raised and the Polymarket sync returned two events,     *)
(* which the response reports.                                             *)
C23_Witness ==
    /\ sync_response # None
    /\ sync_futures # <<>>
    /\ sync_futures[KALSHI].raised
    /\ ~sync_futures[POLYMARKET].raised
    /\ sync_futures[POLYMARKET].count = 2
    /\ sync_response[1].status = 200
    /\ sync_response[1].polymarket_synced = 2

----------------------------------------------------------------------------
(* The events served to the run, and the key under which an event or a     *)
(* market is stored when it has one (0: it has none).                      *)
Served == { sync_run.served[i] : i \in 1..Len(sync_run.served) }

EventKey(e) ==
    IF sync_run.exchange = KALSHI \/ e.id # 0 THEN e.id ELSE e.slug

MarketKey(mkt) ==
    IF sync_run.exchange = KALSHI \/ mkt.ticker # 0 THEN mkt.ticker ELSE mkt.id

(* C24: when a run has returned, every served event that has its required  *)
(* identifier (Kalshi: event_ticker; Polymarket: id or slug) and passes    *)
(* the filters is stored, and so is each of its markets that has its       *)
(* identifier (Kalshi: ticker; Polymarket: conditionId or id), whatever    *)
(* records without identifier came with them.  Violated: a Polymarket      *)
(* event with a slug and no id is served and is not stored.                *)
C24_OthersPersisted ==
    sync_run.phase = "returned" =>
        \A e \in Served :
            (EventKey(e) # 0 /\ e.passes) =>
                /\ EventKey(e) \in synced_events
                /\ \A j \in 1..Len(e.markets) :
                      MarketKey(e.markets[j]) # 0 =>
                          \E r \in synced_markets :
                              /\ r.external_id = MarketKey(e.markets[j])
                              /\ r.event = EventKey(e)

(* C24, the part that holds: the same, for the events that have the key    *)
(* the loop looks at (event_ticker, id).                                   *)
C24_KeyedPersisted ==
    sync_run.phase = "returned" =>
        \A e \in Served :
            (e.id # 0 /\ e.passes) =>
                /\ e.id \in synced_events
                /\ \A j \in 1..Len(e.markets) :
                      MarketKey(e.markets[j]) # 0 =>
                          \E r \in synced_markets :
                              /\ r.external_id = MarketKey(e.markets[j])
                              /\ r.event = e.id

(* C25: every price stored for a Kalshi market is the quote in cents       *)
(* divided by 100: the stored yes and no prices (in hundredths) are the    *)
(* yes_ask and no_ask of the market served under that ticker.  Violated:   *)
(* a quote of 1 cent is stored as 1.0.                                     *)
C25_CentsToProbability ==
    (sync_run.phase # "idle" /\ sync_run.exchange = KALSHI) =>
        \A r \in synced_markets :
            \E e \in Served : \E j \in 1..Len(e.markets) :
                /\ e.markets[j].ticker = r.external_id
                /\ r.yes = e.markets[j].yes
                /\ r.no = e.markets[j].no

(* C25, the part that holds: a quote of 2 to 99 cents is stored as the     *)
(* quote divided by 100.                                                   *)
C25_AboveOneCent ==
    (sync_run.phase # "idle" /\ sync_run.exchange = KALSHI) =>
        \A r \in synced_markets :
            \E e \in Served : \E j \in 1..Len(e.markets) :
                /\ e.markets[j].ticker = r.external_id
                /\ e.markets[j].yes > 1 => r.yes = e.markets[j].yes
                /\ e.markets[j].no > 1 => r.no = e.markets[j].no

C28_RunsNeverRemove ==
    [][response'.op = "refresh" =>
          /\ \A old \in event_matches :
                \E r \in event_matches' :
                    r.id = old.id /\ SamePair(r, old.kalshi_event, old.polymarket_event)
          /\ Cardinality(event_matches') >= Cardinality(event_matches)]_vars

(* A matching run has found a table of one row and left two: the row of an *)
(* earlier run, whose pair scores below the threshold when undisturbed,    *)
(* and a new one.                                                          *)
C28_Witness ==
    /\ response = [op |-> "refresh", status |-> 200]
    /\ last_refresh = <<1, 2>>
    /\ \E r, q \in event_matches :
          /\ r.id = 1 /\ q.id = 2
          /\ r.match_reason # "Manual match"
          /\ title_sim[r.kalshi_event][r.polymarket_event] < SIMILARITY_THRESHOLD

(* The outcome list has an outcome of positive price for the side of the   *)
(* position ("Yes": the name contains 'yes'; "No": it contains 'no' and    *)
(* not 'yes').                                                             *)
SideIsPriced(outcomes, side) ==
    \E i \in 1..Len(outcomes) :
        /\ outcomes[i].price > 0
        /\ IF side = "Yes" THEN YesLike(outcomes[i]) ELSE NoLike(outcomes[i])

(* C27: a market whose Yes side or No side has no outcome with a price     *)
(* other than 0 (a missing price reads as 0) yields no single-market       *)
(* opportunity, and every leg of an emitted cross-exchange hedge has a     *)
(* positive price and is a side of its market that is priced.              *)
C27_UnpricedNeverEmitted ==
    /\ called = "single" =>
          LET o == input.market.outcomes
          IN  (~SideIsPriced(o, "Yes") \/ ~SideIsPriced(o, "No")) => arb = None
    /\ (called = "cross" /\ arb # None) =>
          \A i \in 1..Len(arb[1].positions) :
              LET leg == arb[1].positions[i]
                  market == IF leg.exchange = KALSHI
                            THEN input.match.kalshi_market
                            ELSE input.match.polymarket_market
              IN  /\ leg.price > 0
                  /\ leg.market_id = market.id
                  /\ SideIsPriced(market.outcomes, leg.outcome)

(* The Kalshi market has no Yes price and a No price of 0.40; the hedge    *)
(* emitted is Polymarket Yes at 0.55 with Kalshi No, not the cheaper one   *)
(* with Kalshi Yes at 0.                                                   *)
C27_Witness ==
    /\ called = "cross"
    /\ input.match.kalshi_market.outcomes = Binary(0, 40)
    /\ input.match.polymarket_market.outcomes = Binary(55, 40)
    /\ arb # None
    /\ arb[1].total_cost = 95
    /\ arb[1].positions[1].exchange = POLYMARKET

(* C30: a client request makes at most MAX_RETRIES attempts; an attempt    *)
(* that answers is the last one and its response is what the request       *)
(* returns; the k-th failed attempt is followed by a sleep of              *)
(* RETRY_DELAY * k seconds when k < MAX_RETRIES and by none when           *)
(* k = MAX_RETRIES; and after MAX_RETRIES failed attempts the request      *)
(* raises the error of the last one.                                       *)
C30_BoundedRetries ==
    client_request.pc # "idle" =>
        LET outcomes == client_request.outcomes
            n == Len(outcomes)
            Failed(k) == outcomes[k].kind = "RequestException"
        IN  /\ n <= MAX_RETRIES
            /\ \A k \in 1..n :
                 outcomes[k].kind = "response" =>
                     /\ k = n
                     /\ client_request.pc = "returned"
                     /\ client_request.result = Some(outcomes[k].value)
            /\ client_request.pc = "returned" =>
                 /\ n >= 1
                 /\ outcomes[n].kind = "response"
                 /\ \A k \in 1..(n - 1) : Failed(k)
            /\ Len(client_request.slept) <= MAX_RETRIES - 1
            /\ \A k \in 1..Len(client_request.slept) :
                 /\ k <= n /\ Failed(k)
                 /\ client_request.slept[k] = RETRY_DELAY * k
            /\ \A k \in 1..n :
                 (Failed(k) /\ k < MAX_RETRIES /\ k < n) =>
                     Len(client_request.slept) >= k
            /\ (n = MAX_RETRIES /\ \A k \in 1..n : Failed(k)) =>
                 /\ client_request.pc = "raised"
                 /\ client_request.result = Some(outcomes[n])
                 /\ client_request.slept = <<RETRY_DELAY, RETRY_DELAY * 2>>

(* Three attempts failed, with sleeps of 2 and 4 seconds between them, and *)
(* the request raised the error of the third, which is not that of the     *)
(* first two.                                                              *)
C30_Witness ==
    /\ client_request.pc = "raised"
    /\ Len(client_request.outcomes) = 3
    /\ client_request.slept = <<2, 4>>
    /\ client_request.outcomes[1] = [kind |-> "RequestException", value |-> 1]
    /\ client_request.outcomes[2] = [kind |-> "RequestException", value |-> 1]
    /\ client_request.result = Some([kind |-> "RequestException", value |-> 2])

====
